---- MODULE Spec2Model ----
(***************************************************************************)
(* PhotoScope: the decision controller (gui_v2.rs, PhotoComparisonApp),    *)
(* its background threads and the file committer (file_manager.rs).        *)
(*                                                                         *)
(* Text is modelled as a sequence of tokens: one token per character that  *)
(* matters ("." and "_" and the decimal digits) and one token per run of   *)
(* other characters ("x", "jpg", ...).  The token "<FF>" stands for a run  *)
(* of bytes that is not valid UTF-8.                                       *)
(***************************************************************************)
EXTENDS Integers, Sequences, FiniteSets, TLC

VARIABLES
    \* ---- PhotoComparisonApp (gui_v2.rs:33-69) ----
    state,                      \* AppState
    all_pairs,                  \* Vec<(PathBuf, PathBuf)>
    current_index,              \* usize
    current_analysis1,          \* Option<ImageAnalysis>
    current_analysis2,          \* Option<ImageAnalysis>
    loading_message,            \* Arc<Mutex<Option<String>>>
    next_data,                  \* Arc<Mutex<Option<(a1, a2, img1, img2)>>>
    selected_count,             \* Arc<Mutex<usize>>
    skipped_count,              \* Arc<Mutex<usize>>
    exit_program,               \* bool
    metadata_transfer_source,   \* Option<PathBuf>
    metadata_transfer_pending,  \* bool
    \* ---- execution ----
    pc,                         \* position of the foreground inside update()
    event,                      \* the input the last foreground step was given
    inputs,                     \* the number of inputs this frame was given
    threads,                    \* the spawned background threads still running
    commits,                    \* every File Committer call started, in order
    exited,                     \* main() has returned: the process is gone
    \* ---- the machine ----
    output,                     \* the output folder: file name -> content
    \* ---- direct calls of FileManager::copy_to_output ----
    ret,                        \* what the last direct call returned
    \* ---- a direct call of FileManager::find_matching_files ----
    folders,                    \* what WalkDir yields for folder1 and folder2
    matching_files,             \* what the call returned, None before it
    \* ---- direct calls of ImageAnalysis::analyze_image ----
    disk,                       \* the files analysed: path -> content
    analyses,                   \* what each direct call returned, in order
    \* ---- direct calls of ImageAnalysis::get_quality_stars ----
    ratings,                    \* the analyses rated and the stars returned
    \* ---- the setup of main ----
    file_manager                \* what FileManager::new returned, None before it

vars == <<state, all_pairs, current_index, current_analysis1, current_analysis2,
          loading_message, next_data, selected_count, skipped_count,
          exit_program, metadata_transfer_source, metadata_transfer_pending,
          pc, event, inputs, threads, commits, exited, output, ret,
          folders, matching_files, disk, analyses, ratings, file_manager>>

appVars == <<state, all_pairs, current_index, current_analysis1,
             current_analysis2, loading_message, next_data, selected_count,
             skipped_count, exit_program, metadata_transfer_source,
             metadata_transfer_pending, pc, event, inputs, threads, commits,
             exited>>

matcherVars == <<folders, matching_files>>

analyzerVars == <<disk, analyses, ratings>>

setupVars == <<file_manager>>

\* Option<T>
None == [some |-> FALSE]
Some(v) == [some |-> TRUE, v |-> v]

----------------------------------------------------------------------------
\* Bounds of the model.

\* Longest pair list a session is started with.
MaxPairs == 2
\* Keys pressed and buttons clicked within one frame.
MaxInputs == 2
\* Background threads alive at the same time.
MaxThreads == 2
\* Direct copy_to_output calls in a row.
MaxCopies == 3
\* Entries WalkDir yields under one folder.
MaxEntries == 2
\* Direct analyze_image calls in a row.
MaxAnalyses == 2
\* Fields in the metadata block of a file.
MaxFields == 3

----------------------------------------------------------------------------
\* Paths and file names.

\* std::path::Path: a directory and a file name.
Path(dir, name) == [dir |-> dir, name |-> name]

\* Path::file_name
file_name(path) == path.name

\* OsStr::to_str: None when the text is not valid UTF-8.
to_str(s) ==
    IF \E i \in 1..Len(s) : s[i] = "<FF>" THEN None ELSE Some(s)

\* The position of the last "." of a file name, 0 when there is none.
LastDot(s) ==
    IF \E i \in 1..Len(s) : s[i] = "."
    THEN CHOOSE i \in 1..Len(s) : s[i] = "." /\ \A j \in (i+1)..Len(s) : s[j] # "."
    ELSE 0

\* Path::file_stem: the name before its last ".", the whole name when it has
\* no "." or only a leading one.
file_stem(path) ==
    LET s == file_name(path) d == LastDot(s)
    IN  IF d <= 1 THEN s ELSE SubSeq(s, 1, d - 1)

\* Path::extension: the text after the last ".", None when the name has no "."
\* or only a leading one.
extension(path) ==
    LET s == file_name(path) d == LastDot(s)
    IN  IF d <= 1 THEN None ELSE Some(SubSeq(s, d + 1, Len(s)))

\* Option::unwrap_or
unwrap_or(o, dflt) == IF o.some THEN o.v ELSE dflt

\* Option::and_then(|s| s.to_str())
and_then_to_str(o) == IF o.some THEN to_str(o.v) ELSE None

Digit(d) == CASE d = 0 -> "0" [] d = 1 -> "1" [] d = 2 -> "2" [] d = 3 -> "3"
              [] d = 4 -> "4" [] d = 5 -> "5" [] d = 6 -> "6" [] d = 7 -> "7"
              [] d = 8 -> "8" [] d = 9 -> "9"

RECURSIVE Decimal(_)
\* format!("{}", counter)
Decimal(n) == IF n < 10 THEN <<Digit(n)>> ELSE Decimal(n \div 10) \o <<Digit(n % 10)>>

\* format!("{}_{}", stem, counter) and format!("{}_{}.{}", stem, counter, ext)
new_name(stem, counter, ext) ==
    IF ext = <<>>
    THEN stem \o <<"_">> \o Decimal(counter)
    ELSE stem \o <<"_">> \o Decimal(counter) \o <<".">> \o ext

\* dest_path.exists()
exists(dir, name) == name \in DOMAIN dir

\* PathBuf::join(file_name) inside a directory, and fs::copy into it: the
\* file is created, or truncated and rewritten when it is already there.
write(dir, name, content) ==
    [n \in DOMAIN dir \cup {name} |-> IF n = name THEN content ELSE dir[n]]

----------------------------------------------------------------------------
\* FileManager (file_manager.rs)

RECURSIVE first_new_dest(_, _, _, _)
\* The while loop of copy_to_output: counter counts up from its value until
\* the suffixed name does not exist.
first_new_dest(dir, stem, ext, counter) ==
    LET name == new_name(stem, counter, ext)
    IN  IF exists(dir, name)
        THEN first_new_dest(dir, stem, ext, counter + 1)
        ELSE name

\* resolve_dest without the exists() test: the name is taken whether or not
\* it is free.
resolve_dest_NoCheck(dir, source_path) == file_name(source_path)

\* resolve_dest with the counter started at 2.
resolve_dest_FromTwo(dir, source_path) ==
    LET dest_path == file_name(source_path)
        stem == unwrap_or(and_then_to_str(Some(file_stem(source_path))), <<"file">>)
        ext  == unwrap_or(and_then_to_str(extension(source_path)), <<>>)
    IN  IF exists(dir, dest_path)
        THEN first_new_dest(dir, stem, ext, 2)
        ELSE dest_path

\* copy_to_output up to its fs::copy: the path the copy will be written to.
resolve_dest(dir, source_path) ==
    LET dest_path == file_name(source_path)
        stem == unwrap_or(and_then_to_str(Some(file_stem(source_path))), <<"file">>)
        ext  == unwrap_or(and_then_to_str(extension(source_path)), <<>>)
    IN  IF exists(dir, dest_path)
        THEN first_new_dest(dir, stem, ext, 1)
        ELSE dest_path

\* fs::copy(source, dest): the content written is that of the source, its
\* bytes and its EXIF block.
fs_copy(source) == [bytes |-> source, exif |-> source]

\* fs::copy rename-like: the source is gone once the copy is written.
fs_copy_from_Moved(files, source) ==
    [p \in DOMAIN files \ {source} |-> files[p]]

\* fs::copy(source, dest) opens its source for reading only: the files the
\* sources are among are what they were.
fs_copy_from(files, source) == files

\* Result<PathBuf>
Ok(v) == [ok |-> TRUE, v |-> v]
Err == [ok |-> FALSE]

\* OsStr::to_string_lossy: every invalid byte sequence becomes U+FFFD.
to_string_lossy(s) ==
    [i \in 1..Len(s) |-> IF s[i] = "<FF>" THEN "<FFFD>" ELSE s[i]]

\* str::to_lowercase
to_lowercase(s) ==
    [i \in 1..Len(s) |-> CASE s[i] = "JPG" -> "jpg"
                           [] s[i] = "Jpg" -> "jpg"
                           [] s[i] = "PNG" -> "png"
                           [] s[i] = "TXT" -> "txt"
                           [] s[i] = "X"   -> "x"
                           [] OTHER        -> s[i]]

\* The extensions of the matches! of is_image_file.
ImageExtensions ==
    { <<"jpg">>, <<"jpeg">>, <<"png">>, <<"gif">>, <<"bmp">>, <<"tiff">>,
      <<"tif">>, <<"webp">>, <<"raw">>, <<"cr2">>, <<"nef">>, <<"arw">>,
      <<"dng">> }

\* is_image_file accepting every file that has an extension.
is_image_file_AnyExtension(path) == extension(path).some

\* is_image_file
is_image_file(path) ==
    LET ext == extension(path)
    IN  IF ext.some
        THEN to_lowercase(to_string_lossy(ext.v)) \in ImageExtensions
        ELSE FALSE

\* walkdir::DirEntry
DirEntry(path, is_dir) == [path |-> path, is_dir |-> is_dir]

\* HashMap::insert: the value of an existing key is replaced.
insert(map, key, value) ==
    [k \in DOMAIN map \cup {key} |-> IF k = key THEN value ELSE map[k]]

RECURSIVE index_folder1(_, _)
\* The first loop of find_matching_files (lines 40-49): the image files of
\* folder 1, by file name.
index_folder1(walk, folder1_files) ==
    IF walk = <<>>
    THEN folder1_files
    ELSE LET entry == Head(walk)
         IN  index_folder1(Tail(walk),
                IF ~entry.is_dir /\ is_image_file(entry.path)
                THEN insert(folder1_files,
                            to_string_lossy(file_name(entry.path)), entry.path)
                ELSE folder1_files)

RECURSIVE match_folder2(_, _, _)
\* The second loop of find_matching_files (lines 51-62): a pair is pushed for
\* every image file of folder 2 whose file name is in the map.
match_folder2(walk, folder1_files, matching_pairs) ==
    IF walk = <<>>
    THEN matching_pairs
    ELSE LET entry == Head(walk)
             name  == to_string_lossy(file_name(entry.path))
         IN  match_folder2(Tail(walk), folder1_files,
                IF /\ ~entry.is_dir
                   /\ is_image_file(entry.path)
                   /\ name \in DOMAIN folder1_files
                THEN Append(matching_pairs, <<folder1_files[name], entry.path>>)
                ELSE matching_pairs)

\* The bytes of the model's alphabet, in increasing order.
ByteOrder ==
    <<".", "JPG", "Jpg", "PNG", "TXT", "X", "_", "jpg", "png", "txt", "x", "y",
      "z", "<FFFD>", "<FF>">>

Rank(c) == CHOOSE i \in 1..Len(ByteOrder) : ByteOrder[i] = c

RECURSIVE less(_, _)
\* Ord for OsStr: a < b, byte by byte, a proper prefix first.
less(a, b) ==
    IF b = <<>> THEN FALSE
    ELSE IF a = <<>> THEN TRUE
    ELSE IF Head(a) = Head(b) THEN less(Tail(a), Tail(b))
    ELSE Rank(Head(a)) < Rank(Head(b))

\* find_matching_files without its sort_by: the pairs stay in walk order.
sort_by_first_file_name_NoSort(pairs) == pairs

RECURSIVE sort_by_first_file_name(_)
\* matching_pairs.sort_by(|a, b| a.0.file_name().cmp(&b.0.file_name())): a
\* stable sort, pairs of equal names keep their order.
sort_by_first_file_name(pairs) ==
    IF pairs = <<>>
    THEN <<>>
    ELSE LET sorted == sort_by_first_file_name(SubSeq(pairs, 1, Len(pairs) - 1))
             last   == pairs[Len(pairs)]
             after  == { i \in 1..Len(sorted) :
                           less(file_name(last[1]), file_name(sorted[i][1])) }
             at     == IF after = {} THEN Len(sorted) + 1
                       ELSE CHOOSE i \in after : \A j \in after : i <= j
         IN  SubSeq(sorted, 1, at - 1) \o <<last>> \o SubSeq(sorted, at, Len(sorted))

\* find_matching_files, given what WalkDir yields for folder1 and folder2.
find_matching_files(walk1, walk2) ==
    sort_by_first_file_name(
        match_folder2(walk2, index_folder1(walk1, <<>>), <<>>))

----------------------------------------------------------------------------
\* The two folders of a session.  find_matching_files pairs the files of
\* folder 1 and folder 2 by file name; folder 2 has x.jpg twice (once in a
\* subdirectory), so that two pairs share a file name.

NameX == <<"x", ".", "jpg">>
NameY == <<"y", ".", "jpg">>
NameZ == <<"z", ".", "png">>

\* (path1, path2)
Pair(p1, p2) == <<p1, p2>>

\* What find_matching_files returns when both folders hold all the files:
\* sorted by file name (file_manager.rs:64-68).
AllMatchingPairs ==
    << Pair(Path("f1", NameX), Path("f2", NameX)),
       Pair(Path("f1", NameX), Path("f2/sub", NameX)),
       Pair(Path("f1", NameY), Path("f2", NameY)),
       Pair(Path("f1", NameZ), Path("f2", NameZ)) >>

\* The number of EXIF fields in each file.
ExifFields(path) ==
    CASE path = Path("f1", NameX)     -> 1
      [] path = Path("f2", NameX)     -> 0
      [] path = Path("f2/sub", NameX) -> 1
      [] path = Path("f1", NameY)     -> 0
      [] path = Path("f2", NameY)     -> 1
      [] path = Path("f1", NameZ)     -> 0
      [] path = Path("f2", NameZ)     -> 0

\* The lists find_matching_files can return when the folders hold only the
\* files from one name to another: a run of the pairs, up to MaxPairs long.
\* The list is empty when no file name is in both folders.
PairLists ==
    { SubSeq(AllMatchingPairs, run[1], run[2]) :
        run \in { r \in (1..Len(AllMatchingPairs)) \X (0..Len(AllMatchingPairs)) :
                     r[2] - r[1] + 1 \in 0..MaxPairs } }

----------------------------------------------------------------------------
\* ImageAnalysis (image_analyzer.rs)

\* The record analyze_image returns for a readable file.
ImageAnalysis(path) == [file_path |-> path, metadata_count |-> ExifFields(path)]

\* The f64 values of analyze_image are kept exact, as the integers they stand
\* for: file_size_mb as the length in bytes (file_size_mb * 1024 * 1024) and
\* megapixels as the number of pixels (megapixels * 1_000_000).

\* The largest u8.
U8Max == 255

\* The largest quality score: (..).min(100)
MaxScore == 100

\* Ord::min
min(a, b) == IF a <= b THEN a ELSE b

\* path.extension().and_then(|ext| ext.to_str()).map(|ext| ext.to_lowercase())
lower_extension(path) ==
    LET ext == and_then_to_str(extension(path))
    IN  IF ext.some THEN Some(to_lowercase(ext.v)) ELSE None

\* analyze_image, lines 37-40: unwrap_or(false) when there is no extension
\* or it is not UTF-8.
is_lossless(path) ==
    LET ext == lower_extension(path)
    IN  IF ext.some
        THEN ext.v \in {<<"png">>, <<"tiff">>, <<"tif">>, <<"bmp">>}
        ELSE FALSE

\* resolution_score with > for >= : an image of exactly 48 MP gets 35.
resolution_score_Above(pixels) ==
    IF pixels > 48000000 THEN 40
    ELSE IF pixels > 24000000 THEN 35
    ELSE IF pixels > 12000000 THEN 30
    ELSE IF pixels > 8000000 THEN 25
    ELSE IF pixels > 5000000 THEN 20
    ELSE IF pixels > 2000000 THEN 15
    ELSE IF pixels > 1000000 THEN 10
    ELSE 5

\* calculate_quality_score, lines 95-111
resolution_score(pixels) ==
    IF pixels >= 48000000 THEN 40
    ELSE IF pixels >= 24000000 THEN 35
    ELSE IF pixels >= 12000000 THEN 30
    ELSE IF pixels >= 8000000 THEN 25
    ELSE IF pixels >= 5000000 THEN 20
    ELSE IF pixels >= 2000000 THEN 15
    ELSE IF pixels >= 1000000 THEN 10
    ELSE 5

\* total_pixels = megapixels * 1_000_000.0 (line 124) is the f64 product of
\* the f64 quotient of line 33; for some pixel counts it is not the count
\* itself: (123.0 / 1e6) * 1e6 = 123.00000000000001.
total_pixels_above(pixels) == pixels = 123

\* bytes_per_pixel >= tenths / 10 (lines 126-149).  At the threshold itself
\* the f64 quotient is below it when total_pixels came out above the count.
bytes_per_pixel_ge(len, pixels, tenths) ==
    IF total_pixels_above(pixels)
    THEN 10 * len > tenths * pixels
    ELSE 10 * len >= tenths * pixels

\* jpeg_score with the scores of lines 140 and 142 exchanged: 30 from 1.2
\* bytes per pixel, 35 from 1.0.
jpeg_score_StepsExchanged(len, pixels) ==
    IF bytes_per_pixel_ge(len, pixels, 40) THEN 60
    ELSE IF bytes_per_pixel_ge(len, pixels, 30) THEN 55
    ELSE IF bytes_per_pixel_ge(len, pixels, 25) THEN 50
    ELSE IF bytes_per_pixel_ge(len, pixels, 20) THEN 45
    ELSE IF bytes_per_pixel_ge(len, pixels, 15) THEN 40
    ELSE IF bytes_per_pixel_ge(len, pixels, 12) THEN 30
    ELSE IF bytes_per_pixel_ge(len, pixels, 10) THEN 35
    ELSE IF bytes_per_pixel_ge(len, pixels, 7) THEN 25
    ELSE IF bytes_per_pixel_ge(len, pixels, 5) THEN 20
    ELSE IF bytes_per_pixel_ge(len, pixels, 4) THEN 15
    ELSE IF bytes_per_pixel_ge(len, pixels, 3) THEN 10
    ELSE 5

\* The branch of lines 122-153: the score of a JPEG by its bytes per pixel.
jpeg_score(len, pixels) ==
    IF bytes_per_pixel_ge(len, pixels, 40) THEN 60
    ELSE IF bytes_per_pixel_ge(len, pixels, 30) THEN 55
    ELSE IF bytes_per_pixel_ge(len, pixels, 25) THEN 50
    ELSE IF bytes_per_pixel_ge(len, pixels, 20) THEN 45
    ELSE IF bytes_per_pixel_ge(len, pixels, 15) THEN 40
    ELSE IF bytes_per_pixel_ge(len, pixels, 12) THEN 35
    ELSE IF bytes_per_pixel_ge(len, pixels, 10) THEN 30
    ELSE IF bytes_per_pixel_ge(len, pixels, 7) THEN 25
    ELSE IF bytes_per_pixel_ge(len, pixels, 5) THEN 20
    ELSE IF bytes_per_pixel_ge(len, pixels, 4) THEN 15
    ELSE IF bytes_per_pixel_ge(len, pixels, 3) THEN 10
    ELSE 5

\* compression_score with the last step of the JPEG scale left out: a JPEG
\* below 0.3 bytes per pixel gets the 10 of the step above.
compression_score_NoLastStep(len, pixels, lossless, path) ==
    IF lossless
    THEN 60
    ELSE IF unwrap_or(lower_extension(path), <<>>) \in {<<"jpg">>, <<"jpeg">>}
         THEN IF jpeg_score(len, pixels) = 5 THEN 10 ELSE jpeg_score(len, pixels)
         ELSE 30

\* calculate_quality_score, lines 114-158
compression_score(len, pixels, lossless, path) ==
    IF lossless
    THEN 60
    ELSE IF unwrap_or(lower_extension(path), <<>>) \in {<<"jpg">>, <<"jpeg">>}
         THEN jpeg_score(len, pixels)
         ELSE 30

\* calculate_quality_score: both terms are u8, their sum is at most 100.
calculate_quality_score(len, pixels, lossless, path) ==
    min((resolution_score(pixels)
            + compression_score(len, pixels, lossless, path)) % (U8Max + 1),
        MaxScore)

\* What a file holds: its length in bytes, the image it decodes to (None
\* when it is corrupt or of no supported format), its metadata block and the
\* rest of its bytes.
FileContent(len, image, exif, rest) ==
    [len |-> len, image |-> image, exif |-> exif, rest |-> rest]

\* A file without a metadata block, and one whose block cannot be parsed.
NoExif == [some |-> FALSE, why |-> "missing"]
BadExif == [some |-> FALSE, why |-> "unparsable"]

\* SHA-256 of the bytes of a file, as lower-case hex: taken to be free of
\* collisions, the digest stands for the content it was computed from.
Sha256(content) == <<"sha256", content>>

RECURSIVE for_fields_OnePerTag(_, _, _)
\* The loop of extract_exif_data keeping one entry for each tag, as a map
\* from tag to value would: a field whose tag was seen takes the place of
\* the earlier one.
for_fields_OnePerTag(fields, exif_data, count) ==
    IF fields = <<>>
    THEN <<exif_data, count>>
    ELSE LET field == Head(fields)
             seen  == \E k \in 1..Len(exif_data) : exif_data[k][1] = field[1]
         IN  for_fields_OnePerTag(
                 Tail(fields),
                 IF seen
                 THEN [k \in 1..Len(exif_data) |->
                          IF exif_data[k][1] = field[1]
                          THEN <<field[1], field[2]>> ELSE exif_data[k]]
                 ELSE Append(exif_data, <<field[1], field[2]>>),
                 count + 1)

RECURSIVE for_fields(_, _, _)
\* for field in exif.fields() (lines 74-79): the count goes up by one and
\* the pair (tag name, value) is pushed at the end of the list.
for_fields(fields, exif_data, count) ==
    IF fields = <<>>
    THEN <<exif_data, count>>
    ELSE LET field == Head(fields)
         IN  for_fields(Tail(fields),
                        Append(exif_data, <<field[1], field[2]>>),
                        count + 1)

\* extract_exif_data: the fields and their number; both File::open and
\* read_from_container are allowed to fail, and then nothing is extracted.
extract_exif_data(content, read_ok) ==
    IF read_ok /\ content.exif.some
    THEN for_fields(content.exif.v, <<>>, 0)
    ELSE <<<<>>, 0>>

\* calculate_file_hash
calculate_file_hash(content, read_ok) ==
    IF read_ok THEN Ok(Sha256(content)) ELSE Err

\* The outcomes of the file operations of one analyze_image call: of
\* fs::metadata, image::open, the reads of extract_exif_data and the reads of
\* calculate_file_hash.
IoOutcomes == [size : BOOLEAN, decode : BOOLEAN, exif : BOOLEAN, hash : BOOLEAN]

\* analyze_image with the error of extract_exif_data passed on to the caller.
analyze_image_ExifFatal(path, content, io) ==
    IF ~io.size \/ ~io.decode \/ ~content.image.some
       \/ ~io.exif \/ ~content.exif.some \/ ~io.hash
    THEN Err
    ELSE Ok([file_path      |-> Path(path.dir, to_string_lossy(path.name)),
             file_size_mb   |-> content.len,
             width          |-> content.image.v[1],
             height         |-> content.image.v[2],
             megapixels     |-> content.image.v[1] * content.image.v[2],
             metadata_count |-> Len(content.exif.v),
             exif_data      |-> content.exif.v,
             quality_score  |-> calculate_quality_score(content.len,
                                    content.image.v[1] * content.image.v[2],
                                    is_lossless(path), path),
             hash           |-> Sha256(content)])

\* analyze_image
analyze_image(path, content, io) ==
    IF ~io.size
    THEN Err
    ELSE IF ~io.decode \/ ~content.image.some
    THEN Err
    ELSE LET width      == content.image.v[1]
             height     == content.image.v[2]
             megapixels == width * height
             exif       == extract_exif_data(content, io.exif)
             hash       == calculate_file_hash(content, io.hash)
         IN  IF ~hash.ok
             THEN Err
             ELSE Ok([file_path      |-> Path(path.dir, to_string_lossy(path.name)),
                      file_size_mb   |-> content.len,
                      width          |-> width,
                      height         |-> height,
                      megapixels     |-> megapixels,
                      metadata_count |-> exif[2],
                      exif_data      |-> exif[1],
                      quality_score  |-> calculate_quality_score(content.len,
                                             megapixels, is_lossless(path), path),
                      hash           |-> hash.v])

\* get_quality_stars with the f32 truncated instead of rounded.
stars_Truncated(quality_score) == min(quality_score \div 20, 5)

\* get_quality_stars, lines 182-183: (quality_score / 100 * 5).round(), at
\* most 5.  f32::round rounds halves away from zero, and for the scores 10,
\* 30, 50, 70 and 90 the f32 product is the half itself.
stars(quality_score) == min((quality_score + 10) \div 20, 5)

\* str::repeat
repeat(symbol, n) == [i \in 1..n |-> symbol]

\* get_quality_stars
get_quality_stars(analysis) ==
    LET n == stars(analysis.quality_score)
    IN  repeat("filled", n) \o repeat("empty", 5 - n)

----------------------------------------------------------------------------
\* PhotoComparisonApp (gui_v2.rs)

\* enum AppState
ShowingImages == [tag |-> "ShowingImages"]
Loading(msg) == [tag |-> "Loading", msg |-> msg]
ProcessingChoice(choice, path) ==
    [tag |-> "ProcessingChoice", choice |-> choice, path |-> path]

\* The fields of the app a handler may write, as one value.
Self ==
    [state |-> state, current_index |-> current_index,
     selected_count |-> selected_count, skipped_count |-> skipped_count,
     exit_program |-> exit_program,
     metadata_transfer_source |-> metadata_transfer_source,
     metadata_transfer_pending |-> metadata_transfer_pending,
     threads |-> threads, commits |-> commits]

\* self.all_pairs.get(i), i counted from 0
pairs_get(i) == IF i < Len(all_pairs) THEN Some(all_pairs[i + 1]) ELSE None

\* The running threads are a multiset: a set of thread records, each with
\* the number n of running threads that are alike.
one_more(ths, thread) ==
    IF \E u \in ths : [u EXCEPT !.n = 1] = thread
    THEN { IF [u EXCEPT !.n = 1] = thread THEN [u EXCEPT !.n = @ + 1] ELSE u : u \in ths }
    ELSE ths \cup {thread}

one_less(ths, t) ==
    IF t.n = 1 THEN ths \ {t} ELSE (ths \ {t}) \cup {[t EXCEPT !.n = @ - 1]}

RECURSIVE running(_)
\* The number of running threads.
running(ths) ==
    IF ths = {} THEN 0
    ELSE LET t == CHOOSE u \in ths : TRUE IN t.n + running(ths \ {t})

\* thread::spawn: one more running thread, at its first statement.
spawn(s, kind, index, cid) ==
    [s EXCEPT !.threads = one_more(@,
        [kind |-> kind, index |-> index, cid |-> cid,
         pc |-> IF kind = "commit" THEN "resolve" ELSE "analyze",
         dest |-> None, n |-> 1])]

\* load_current_pair
load_current_pair(s) ==
    IF pairs_get(s.current_index).some
    THEN spawn(s, "load", s.current_index, 0)
    ELSE s

\* move_to_next with > for >= at line 697: the end of the list is missed.
move_to_next_PastEnd(s) ==
    LET s1 == [s EXCEPT !.current_index = @ + 1]
    IN  IF s1.current_index > Len(all_pairs)
        THEN [s1 EXCEPT !.exit_program = TRUE]
        ELSE IF s1.state.tag = "ShowingImages"
             THEN load_current_pair([s1 EXCEPT !.state = Loading(<<"Caricamento...">>)])
             ELSE s1

\* move_to_next
move_to_next(s) ==
    LET s1 == [s EXCEPT !.current_index = @ + 1]
    IN  IF s1.current_index >= Len(all_pairs)
        THEN [s1 EXCEPT !.exit_program = TRUE]
        ELSE IF s1.state.tag = "ShowingImages"
             THEN load_current_pair([s1 EXCEPT !.state = Loading(<<"Caricamento...">>)])
             ELSE s1

\* make_choice
make_choice(s, choice) ==
    LET pair == pairs_get(s.current_index)
    IN  IF pair.some
        THEN [s EXCEPT !.state =
                ProcessingChoice(choice, IF choice = 1 THEN pair.v[1] ELSE pair.v[2])]
        ELSE s

\* skip_current without line 646: the skip is not counted.
skip_current_NoCount(s) == move_to_next(s)

\* skip_current
skip_current(s) == move_to_next([s EXCEPT !.skipped_count = @ + 1])

\* One more entry in the record of File Committer calls: the call a commit
\* thread is about to make (gui_v2.rs:669).
commit_started(s, path, metadata_source) ==
    [s EXCEPT !.commits = Append(@,
        [source |-> path, donor |-> metadata_source, status |-> "running",
         dest |-> None])]

\* process_choice without lines 664-665: the donor slot is left as it was.
process_choice_KeepsDonor(s, choice, path) ==
    LET next_index == s.current_index + 1
        metadata_source == IF s.metadata_transfer_pending
                           THEN s.metadata_transfer_source
                           ELSE None
        s2 == commit_started(s, path, metadata_source)
        s3 == spawn(s2, "commit", next_index, Len(s2.commits))
        s4 == [s3 EXCEPT !.selected_count = @ + 1,
                         !.state = Loading(<<"Preparazione prossima coppia...">>)]
    IN  move_to_next(s4)

\* process_choice without line 689: the choice is not counted.
process_choice_NoCount(s, choice, path) ==
    LET next_index == s.current_index + 1
        metadata_source == IF s.metadata_transfer_pending
                           THEN s.metadata_transfer_source
                           ELSE None
        s1 == [s EXCEPT !.metadata_transfer_pending = FALSE,
                        !.metadata_transfer_source = None]
        s2 == commit_started(s1, path, metadata_source)
        s3 == spawn(s2, "commit", next_index, Len(s2.commits))
        s4 == [s3 EXCEPT !.state = Loading(<<"Preparazione prossima coppia...">>)]
    IN  move_to_next(s4)

\* process_choice
process_choice(s, choice, path) ==
    LET next_index == s.current_index + 1
        metadata_source == IF s.metadata_transfer_pending
                           THEN s.metadata_transfer_source
                           ELSE None
        s1 == [s EXCEPT !.metadata_transfer_pending = FALSE,
                        !.metadata_transfer_source = None]
        s2 == commit_started(s1, path, metadata_source)
        s3 == spawn(s2, "commit", next_index, Len(s2.commits))
        s4 == [s3 EXCEPT !.selected_count = @ + 1,
                         !.state = Loading(<<"Preparazione prossima coppia...">>)]
    IN  move_to_next(s4)

\* a.metadata_count of an analysis the app holds, unwrap_or(0)
metadata_count(analysis) ==
    IF analysis.some THEN analysis.v.metadata_count ELSE 0

\* The messages transfer_metadata shows (in ASCII).
Marked(image, count) ==
    Loading(<<"Metadati marcati per trasferimento: immagine ", image, " (">>
            \o Decimal(count) \o <<" meta) -> immagine selezionata">>)
SameCount ==
    Loading(<<"Entrambe le immagini hanno gia' lo stesso numero di metadati">>)
NoMetadata ==
    Loading(<<"Nessuna immagine ha metadati da trasferire">>)

\* mark_donor with the donor slot left as it was when the counts are equal.
mark_donor_KeepsDonor(s, path1, path2) ==
    LET metadata_count_1 == metadata_count(current_analysis1)
        metadata_count_2 == metadata_count(current_analysis2)
    IN  IF metadata_count_1 > metadata_count_2
        THEN [s EXCEPT !.metadata_transfer_source = Some(path1),
                       !.metadata_transfer_pending = TRUE,
                       !.state = Marked("1", metadata_count_1)]
        ELSE IF metadata_count_2 > metadata_count_1
        THEN [s EXCEPT !.metadata_transfer_source = Some(path2),
                       !.metadata_transfer_pending = TRUE,
                       !.state = Marked("2", metadata_count_2)]
        ELSE IF metadata_count_1 > 0
        THEN [s EXCEPT !.state = SameCount]
        ELSE [s EXCEPT !.state = NoMetadata]

\* transfer_metadata, the comparison of the counts (gui_v2.rs:759-786)
mark_donor(s, path1, path2) ==
    LET metadata_count_1 == metadata_count(current_analysis1)
        metadata_count_2 == metadata_count(current_analysis2)
    IN  IF metadata_count_1 > metadata_count_2
        THEN [s EXCEPT !.metadata_transfer_source = Some(path1),
                       !.metadata_transfer_pending = TRUE,
                       !.state = Marked("1", metadata_count_1)]
        ELSE IF metadata_count_2 > metadata_count_1
        THEN [s EXCEPT !.metadata_transfer_source = Some(path2),
                       !.metadata_transfer_pending = TRUE,
                       !.state = Marked("2", metadata_count_2)]
        ELSE IF metadata_count_1 > 0
        THEN [s EXCEPT !.state = SameCount,
                       !.metadata_transfer_pending = FALSE,
                       !.metadata_transfer_source = None]
        ELSE [s EXCEPT !.state = NoMetadata,
                       !.metadata_transfer_pending = FALSE,
                       !.metadata_transfer_source = None]

\* transfer_metadata without the thread of lines 793-811.
transfer_metadata_NoReload(s) ==
    LET pair == pairs_get(s.current_index)
    IN  IF pair.some THEN mark_donor(s, pair.v[1], pair.v[2]) ELSE s

\* transfer_metadata
transfer_metadata(s) ==
    LET pair == pairs_get(s.current_index)
    IN  IF pair.some
        THEN spawn(mark_donor(s, pair.v[1], pair.v[2]), "reload", s.current_index, 0)
        ELSE s

\* The input a frame can bring: a key pressed, a button clicked, or nothing.
Keys == {"A", "D", "S", "W", "Escape"}
Buttons == {"Prima", "Seconda", "Salta", "Meta", "Esci"}

\* What a button or a key does (show_modern_controls, handle_keyboard_input).
handle(s, input) ==
    CASE input \in {"A", "Prima"}     -> make_choice(s, 1)
      [] input \in {"D", "Seconda"}   -> make_choice(s, 2)
      [] input \in {"S", "Salta"}     -> skip_current(s)
      [] input \in {"W", "Meta"}      -> transfer_metadata(s)
      [] input \in {"Escape", "Esci"} -> [s EXCEPT !.exit_program = TRUE]
      [] OTHER                        -> s

\* The handler's result becomes the app's state.
Becomes(s) ==
    /\ running(s.threads) <= MaxThreads
    /\ state' = s.state
    /\ current_index' = s.current_index
    /\ selected_count' = s.selected_count
    /\ skipped_count' = s.skipped_count
    /\ exit_program' = s.exit_program
    /\ metadata_transfer_source' = s.metadata_transfer_source
    /\ metadata_transfer_pending' = s.metadata_transfer_pending
    /\ threads' = s.threads
    /\ commits' = s.commits

\* update (gui_v2.rs:193-200): the handoff slot is taken.
taken == next_data.some

\* The state update matches on (gui_v2.rs:202): ShowingImages when the slot
\* held a value, the stored state otherwise.
matched == IF taken THEN ShowingImages ELSE state

Install ==
    /\ next_data' = None
    /\ current_analysis1' = IF taken THEN Some(next_data.v[1]) ELSE current_analysis1
    /\ current_analysis2' = IF taken THEN Some(next_data.v[2]) ELSE current_analysis2

\* The session is over: update has set exit_program and the frame has ended,
\* so the closure of run closes the window (gui_v2.rs:118-120).
Done == exit_program /\ pc = "frame"

\* main without the test of lines 68-71: the app is built on any list.
Main_NoGuard ==
    /\ pc = "main"
    /\ pc' = "run"
    /\ UNCHANGED <<matcherVars, analyzerVars, setupVars>>
    /\ UNCHANGED <<state, all_pairs, current_index, current_analysis1,
                   current_analysis2, loading_message, next_data,
                   selected_count, skipped_count, exit_program,
                   metadata_transfer_source, metadata_transfer_pending,
                   event, inputs, threads, commits, exited, output, ret>>

\* main (main.rs:66-86): with no matching files main returns at once, and
\* the app is never built; otherwise the app is built and run.
Main ==
    /\ pc = "main"
    /\ IF all_pairs = <<>>
       THEN pc' = "end" /\ exited' = TRUE
       ELSE pc' = "run" /\ UNCHANGED exited
    /\ UNCHANGED <<matcherVars, analyzerVars, setupVars>>
    /\ UNCHANGED <<state, all_pairs, current_index, current_analysis1,
                   current_analysis2, loading_message, next_data,
                   selected_count, skipped_count, exit_program,
                   metadata_transfer_source, metadata_transfer_pending,
                   event, inputs, threads, commits, output, ret>>

\* run (gui_v2.rs:102-104): the first pair is loaded.
Run ==
    /\ pc = "run"
    /\ pc' = "frame"
    /\ event' = "none"
    /\ inputs' = 0
    /\ Becomes(load_current_pair(Self))
    /\ UNCHANGED <<matcherVars, analyzerVars, setupVars>>
    /\ UNCHANGED <<all_pairs, current_analysis1, current_analysis2,
                   loading_message, next_data, exited, output, ret>>

\* update in a frame that ends in the Loading state: show_loading_ui reads no
\* input, whatever key is down.
UpdateLoading ==
    /\ pc = "frame" /\ ~exit_program
    /\ matched.tag = "Loading"
    /\ \E key \in Keys \cup {"none"} : event' = key
    /\ inputs' = 0
    /\ UNCHANGED <<matcherVars, analyzerVars, setupVars>>
    /\ UNCHANGED <<state, all_pairs, current_index, current_analysis1,
                   current_analysis2, loading_message, next_data,
                   selected_count, skipped_count, exit_program,
                   metadata_transfer_source, metadata_transfer_pending, pc,
                   threads, commits, exited, output, ret>>

\* update in a frame that finds ProcessingChoice: process_choice runs, and
\* show_loading_ui reads no input.
UpdateProcessingChoice ==
    /\ pc = "frame" /\ ~exit_program
    /\ matched.tag = "ProcessingChoice"
    /\ \E key \in Keys \cup {"none"} : event' = key
    /\ inputs' = 0
    /\ Becomes(process_choice(Self, state.choice, state.path))
    /\ UNCHANGED <<matcherVars, analyzerVars, setupVars>>
    /\ UNCHANGED <<all_pairs, current_analysis1, current_analysis2,
                   loading_message, next_data, pc, exited, output, ret>>

\* update in a frame that shows the pair: a value in the slot is installed,
\* then show_comparison_ui draws the controls and reads the input.
UpdateShowingImages ==
    /\ pc = "frame" /\ ~exit_program
    /\ matched.tag = "ShowingImages"
    /\ Install
    /\ state' = ShowingImages
    /\ pc' = "buttons"
    /\ event' = "none"
    /\ inputs' = 0
    /\ UNCHANGED <<matcherVars, analyzerVars, setupVars>>
    /\ UNCHANGED <<all_pairs, current_index, loading_message, selected_count,
                   skipped_count, exit_program, metadata_transfer_source,
                   metadata_transfer_pending, threads, commits, exited, output,
                   ret>>

\* show_modern_controls (gui_v2.rs:544-574): at most one button is clicked.
Controls ==
    /\ pc = "buttons"
    /\ pc' = "A"
    /\ \E input \in Buttons \cup {"none"} :
          /\ event' = input
          /\ inputs' = IF input = "none" THEN inputs ELSE inputs + 1
          /\ Becomes(handle(Self, input))
    /\ UNCHANGED <<matcherVars, analyzerVars, setupVars>>
    /\ UNCHANGED <<all_pairs, current_analysis1, current_analysis2,
                   loading_message, next_data, exited, output, ret>>

\* The key after `key` in handle_keyboard_input, "frame" after the last.
NextKey(key) ==
    CASE key = "A" -> "D" [] key = "D" -> "S" [] key = "S" -> "W"
      [] key = "W" -> "Escape" [] key = "Escape" -> "frame"

\* handle_keyboard_input (gui_v2.rs:620-636), one key_pressed test at a time.
KeyboardInput(key) ==
    /\ pc = key
    /\ pc' = NextKey(key)
    /\ \E input \in {key, "none"} :
          /\ input # "none" => inputs < MaxInputs
          /\ event' = input
          /\ inputs' = IF NextKey(key) = "frame" THEN 0
                       ELSE IF input = "none" THEN inputs ELSE inputs + 1
          /\ Becomes(handle(Self, input))
    /\ UNCHANGED <<matcherVars, analyzerVars, setupVars>>
    /\ UNCHANGED <<all_pairs, current_analysis1, current_analysis2,
                   loading_message, next_data, exited, output, ret>>

----------------------------------------------------------------------------
\* The background threads.  A thread that has ended is dropped from threads;
\* no thread runs once the process has exited.  The handlers of a frame read
\* nothing a thread writes (the handoff slot is read at the head of update
\* only) and a thread reads nothing a handler writes, so a thread step taken
\* in the middle of a frame gives the same result taken before or after the
\* frame: thread steps are placed between frames.
Scheduled == ~exited /\ pc \in {"run", "frame"}

\* The two analyses and the two images of a pair: Some when all four calls
\* (analyze_image twice, load_and_resize_image twice) return Ok.
analyzed(index, ok) ==
    IF ok
    THEN Some(<<ImageAnalysis(all_pairs[index + 1][1]),
                ImageAnalysis(all_pairs[index + 1][2])>>)
    ELSE None

\* *next_data.lock().unwrap() = Some(..): only when the analyses succeeded.
store(slot, data) == IF data.some THEN data ELSE slot

\* The thread of load_current_pair (gui_v2.rs:714-726).
LoadThread(t) ==
    /\ t.kind = "load" /\ Scheduled
    /\ \E ok \in BOOLEAN : next_data' = store(next_data, analyzed(t.index, ok))
    /\ threads' = one_less(threads, t)
    /\ event' = "none"
    /\ UNCHANGED inputs
    /\ UNCHANGED <<matcherVars, analyzerVars, setupVars>>
    /\ UNCHANGED <<state, all_pairs, current_index, current_analysis1,
                   current_analysis2, loading_message, selected_count,
                   skipped_count, exit_program, metadata_transfer_source,
                   metadata_transfer_pending, pc, commits, exited, output, ret>>

\* The thread of transfer_metadata (gui_v2.rs:793-811), after its sleep.
ReloadThread(t) ==
    /\ t.kind = "reload" /\ Scheduled
    /\ \E ok \in BOOLEAN : next_data' = store(next_data, analyzed(t.index, ok))
    /\ threads' = one_less(threads, t)
    /\ event' = "none"
    /\ UNCHANGED inputs
    /\ UNCHANGED <<matcherVars, analyzerVars, setupVars>>
    /\ UNCHANGED <<state, all_pairs, current_index, current_analysis1,
                   current_analysis2, loading_message, selected_count,
                   skipped_count, exit_program, metadata_transfer_source,
                   metadata_transfer_pending, pc, commits, exited, output, ret>>


\* The File Committer's merge of a donor's metadata into the copy: the EXIF
\* block is the donor's, the bytes of the image are left as copied.
merge_metadata(content, donor) ==
    IF donor.some THEN [content EXCEPT !.exif = donor.v] ELSE content

\* The thread of process_choice, in copy_to_output up to fs::copy
\* (file_manager.rs:87-113): the destination is chosen.
CommitResolve(t) ==
    /\ t.kind = "commit" /\ t.pc = "resolve" /\ Scheduled
    /\ threads' = one_more(one_less(threads, t),
          [t EXCEPT !.pc = "copy",
                    !.dest = Some(resolve_dest(output, commits[t.cid].source))])
    /\ event' = "none"
    /\ UNCHANGED inputs
    /\ UNCHANGED <<matcherVars, analyzerVars, setupVars>>
    /\ UNCHANGED <<state, all_pairs, current_index, current_analysis1,
                   current_analysis2, loading_message, next_data,
                   selected_count, skipped_count, exit_program,
                   metadata_transfer_source, metadata_transfer_pending, pc,
                   commits, exited, output, ret>>

\* The thread of process_choice, from fs::copy to the end of
\* copy_to_output_with_metadata (gui_v2.rs:669): the copy and the merge of
\* the donor's metadata succeed, or one of them fails.
CommitCopy(t) ==
    /\ t.kind = "commit" /\ t.pc = "copy" /\ Scheduled
    /\ \E ok \in BOOLEAN :
          /\ output' = IF ok
                       THEN write(output, t.dest.v,
                                  merge_metadata(fs_copy(commits[t.cid].source),
                                                 commits[t.cid].donor))
                       ELSE output
          /\ commits' = [commits EXCEPT
                            ![t.cid].status = IF ok THEN "ok" ELSE "failed",
                            ![t.cid].dest = IF ok THEN t.dest ELSE None]
    /\ threads' = IF t.index < Len(all_pairs)
                  THEN one_more(one_less(threads, t), [t EXCEPT !.pc = "analyze"])
                  ELSE one_less(threads, t)
    /\ event' = "none"
    /\ UNCHANGED inputs
    /\ UNCHANGED <<matcherVars, analyzerVars, setupVars>>
    /\ UNCHANGED <<state, all_pairs, current_index, current_analysis1,
                   current_analysis2, loading_message, next_data,
                   selected_count, skipped_count, exit_program,
                   metadata_transfer_source, metadata_transfer_pending, pc,
                   exited, ret>>

\* The thread of process_choice, analysing the next pair (gui_v2.rs:673-686).
CommitPrefetch(t) ==
    /\ t.kind = "commit" /\ t.pc = "analyze" /\ Scheduled
    /\ \E ok \in BOOLEAN : next_data' = store(next_data, analyzed(t.index, ok))
    /\ threads' = one_less(threads, t)
    /\ event' = "none"
    /\ UNCHANGED inputs
    /\ UNCHANGED <<matcherVars, analyzerVars, setupVars>>
    /\ UNCHANGED <<state, all_pairs, current_index, current_analysis1,
                   current_analysis2, loading_message, selected_count,
                   skipped_count, exit_program, metadata_transfer_source,
                   metadata_transfer_pending, pc, commits, exited, output, ret>>

\* run returns the counts and main returns (gui_v2.rs:123, main.rs:86-94):
\* the process exits, and its threads with it.
Exit ==
    /\ Done /\ ~exited
    /\ exited' = TRUE
    /\ threads' = {}
    /\ commits' = [k \in DOMAIN commits |->
                      IF commits[k].status = "running"
                      THEN [commits[k] EXCEPT !.status = "killed"]
                      ELSE commits[k]]
    /\ event' = "none"
    /\ UNCHANGED inputs
    /\ UNCHANGED <<matcherVars, analyzerVars, setupVars>>
    /\ UNCHANGED <<state, all_pairs, current_index, current_analysis1,
                   current_analysis2, loading_message, next_data,
                   selected_count, skipped_count, exit_program,
                   metadata_transfer_source, metadata_transfer_pending, pc,
                   output, ret>>

----------------------------------------------------------------------------
\* A session.

\* main has found the matching files (main.rs:66) and the output folder is
\* empty; the fields of the app have the values PhotoComparisonApp::new
\* (gui_v2.rs:72-96) gives them.
Init ==
    /\ all_pairs \in PairLists
    /\ state = Loading(<<"Caricamento prima coppia...">>)
    /\ current_index = 0
    /\ current_analysis1 = None
    /\ current_analysis2 = None
    /\ loading_message = None
    /\ next_data = None
    /\ selected_count = 0
    /\ skipped_count = 0
    /\ exit_program = FALSE
    /\ metadata_transfer_source = None
    /\ metadata_transfer_pending = FALSE
    /\ pc = "main"
    /\ event = "none"
    /\ inputs = 0
    /\ threads = {}
    /\ commits = <<>>
    /\ exited = FALSE
    /\ output = <<>>
    /\ ret = <<>>
    /\ folders = <<<<>>, <<>>>>
    /\ matching_files = None
    /\ file_manager = None
    /\ disk = <<>>
    /\ analyses = <<>>
    /\ ratings = <<>>

Next ==
    \/ Main
    \/ Run
    \/ UpdateLoading
    \/ UpdateProcessingChoice
    \/ UpdateShowingImages
    \/ Controls
    \/ \E key \in Keys : KeyboardInput(key)
    \/ \E t \in threads : LoadThread(t)
    \/ \E t \in threads : ReloadThread(t)
    \/ \E t \in threads : CommitResolve(t)
    \/ \E t \in threads : CommitCopy(t)
    \/ \E t \in threads : CommitPrefetch(t)
    \/ Exit

Spec == Init /\ [][Next]_vars

----------------------------------------------------------------------------
\* FileManager::copy_to_output called directly, one call after the other, on
\* an output folder that may already hold files.

NameNoExt == <<"x">>
NameDotEnd == <<"x", ".">>
NameNotUtf8 == <<"<FF>", ".", "jpg">>
NameX1 == <<"x", "_", "1", ".", "jpg">>

\* The files a call may be given: each name in two folders.
Sources ==
    { Path(dir, name) : dir \in {"f1", "f2"},
                        name \in {NameX, NameNoExt, NameDotEnd, NameNotUtf8, NameX1} }

\* The files the output folder may hold before the first call.
OldFiles == {NameX, NameX1}

\* copy_to_output (file_manager.rs:86-125): the destination is resolved and
\* fs::copy writes it, or fails and writes nothing.
copy_to_output(source_path) ==
    /\ pc = "direct"
    /\ Len(ret) < MaxCopies
    /\ LET dest == resolve_dest(output, source_path)
       IN  \E ok \in BOOLEAN :
              /\ output' = IF ok
                           THEN write(output, dest, fs_copy(source_path))
                           ELSE output
              /\ disk' = IF ok THEN fs_copy_from(disk, source_path) ELSE disk
              /\ ret' = Append(ret, [source |-> source_path,
                                     result |-> IF ok THEN Ok(dest) ELSE Err])
    /\ UNCHANGED <<matcherVars, analyses, ratings, setupVars>>
    /\ UNCHANGED appVars

InitFM ==
    /\ all_pairs = <<>>
    /\ state = Loading(<<"Caricamento prima coppia...">>)
    /\ current_index = 0
    /\ current_analysis1 = None
    /\ current_analysis2 = None
    /\ loading_message = None
    /\ next_data = None
    /\ selected_count = 0
    /\ skipped_count = 0
    /\ exit_program = FALSE
    /\ metadata_transfer_source = None
    /\ metadata_transfer_pending = FALSE
    /\ pc = "direct"
    /\ event = "none"
    /\ inputs = 0
    /\ threads = {}
    /\ commits = <<>>
    /\ exited = FALSE
    /\ \E old \in SUBSET OldFiles :
          output = [n \in old |-> fs_copy(Path("earlier", n))]
    /\ ret = <<>>
    /\ folders = <<<<>>, <<>>>>
    /\ matching_files = None
    /\ file_manager = None
    /\ disk = [p \in Sources |-> fs_copy(p)]
    /\ analyses = <<>>
    /\ ratings = <<>>

NextFM == \E source_path \in Sources : copy_to_output(source_path)

SpecFM == InitFM /\ [][NextFM]_vars

----------------------------------------------------------------------------
\* Claims about the File Committer (SpecFM).

\* The call the last step made, when it made one.
Called == Len(ret') = Len(ret) + 1
LastCall == ret'[Len(ret')]

\* C6: over a sequence of commits into one output folder no commit overwrites
\* a file that is already there: every file of the folder is still there with
\* the same content after each step, a successful commit writes the bytes of
\* its source to a path that did not exist before it, and the paths the
\* commits returned are pairwise distinct.
C6_NeverOverwrites ==
    /\ [](\A i, j \in 1..Len(ret) :
            (i # j /\ ret[i].result.ok /\ ret[j].result.ok)
                => ret[i].result.v # ret[j].result.v)
    /\ [][/\ \A n \in DOMAIN output :
                n \in DOMAIN output' /\ output'[n] = output[n]
          /\ (Called /\ LastCall.result.ok) =>
                /\ LastCall.result.v \notin DOMAIN output
                /\ LastCall.result.v \in DOMAIN output'
                /\ output'[LastCall.result.v].bytes = LastCall.source]_vars

\* Two commits of the same file name have both succeeded, into a folder that
\* held that name before the first of them.
C6_Witness ==
    \E i, j \in 1..Len(ret) :
        /\ i < j
        /\ ret[i].result.ok /\ ret[j].result.ok
        /\ file_name(ret[i].source) = file_name(ret[j].source)
        /\ ret[i].result.v # file_name(ret[i].source)
        /\ output[file_name(ret[i].source)].bytes.dir = "earlier"

\* name_N.ext: the suffix _N before the last "." of the name, at the end of
\* the name when it has no extension.
Suffixed(name, n) ==
    LET d == LastDot(name)
    IN  IF d <= 1
        THEN name \o <<"_">> \o Decimal(n)
        ELSE SubSeq(name, 1, d - 1) \o <<"_">> \o Decimal(n) \o SubSeq(name, d, Len(name))

\* The first name of candidate(0), candidate(1), ... that is not in dir.
FirstFree(dir, candidate(_)) ==
    LET n == CHOOSE k \in 0..Cardinality(DOMAIN dir) :
                 /\ candidate(k) \notin DOMAIN dir
                 /\ \A m \in 0..(k - 1) : candidate(m) \in DOMAIN dir
    IN  candidate(n)

\* C7 as claimed: a successful commit returns the first free name of
\* name.ext, name_1.ext, name_2.ext, ...
C7_FirstFreeName ==
    [][(Called /\ LastCall.result.ok) =>
          LET name == file_name(LastCall.source)
              candidate(n) == IF n = 0 THEN name ELSE Suffixed(name, n)
          IN  LastCall.result.v = FirstFree(output, candidate)]_vars

\* Text that is valid UTF-8.
IsUtf8(text) == \A i \in 1..Len(text) : text[i] # "<FF>"

\* C7 as amended: a successful commit returns the first free name of
\* name.ext, name_1.ext, name_2.ext, ... when the name is valid UTF-8 and does
\* not end in "."; for a stem that is not valid UTF-8 the suffixed names are
\* file_1.ext, file_2.ext, ..., and an extension that is empty or not valid
\* UTF-8 is dropped from the suffixed names together with its ".".
C7_FirstFreeNameUtf8 ==
    [][(Called /\ LastCall.result.ok) =>
          LET name == file_name(LastCall.source)
              d == LastDot(name)
              stem == IF d <= 1 THEN name ELSE SubSeq(name, 1, d - 1)
              ext == IF d <= 1 THEN <<>> ELSE SubSeq(name, d + 1, Len(name))
              candidate(n) ==
                  IF n = 0 THEN name
                  ELSE IF IsUtf8(name) /\ (d <= 1 \/ ext # <<>>)
                       THEN Suffixed(name, n)
                       ELSE Suffixed((IF IsUtf8(stem) THEN stem ELSE <<"file">>)
                                     \o (IF IsUtf8(ext) /\ ext # <<>>
                                         THEN <<".">> \o ext ELSE <<>>), n)
          IN  LastCall.result.v = FirstFree(output, candidate)]_vars

\* Two distinct sources named x.jpg were committed back to back into an empty
\* folder and came out as x.jpg and x_1.jpg.
C7_Witness ==
    /\ Len(ret) = 2
    /\ ret[1].source = Path("f1", NameX) /\ ret[1].result = Ok(NameX)
    /\ ret[2].source = Path("f2", NameX) /\ ret[2].result = Ok(NameX1)
    /\ DOMAIN output = {NameX, NameX1}

\* C28: copy_to_output never modifies or deletes its source: after every call,
\* whether it returned a path or an error, and whether or not the name of the
\* source was already in the output folder, every source file is still there
\* with the content it had, and the copy written has that content.
C28_SourceUntouched ==
    /\ [](\A i \in 1..Len(ret) :
            /\ ret[i].source \in DOMAIN disk
            /\ disk[ret[i].source] = fs_copy(ret[i].source))
    /\ [][Called =>
            /\ \A p \in DOMAIN disk : p \in DOMAIN disk' /\ disk'[p] = disk[p]
            /\ LastCall.result.ok =>
                  output'[LastCall.result.v] = disk[LastCall.source]]_vars

\* A call on a source whose name was already in the output folder has
\* returned a suffixed path, a call on the same source has failed, and the
\* source is on the disk as it was.
C28_Witness ==
    \E i, j \in 1..Len(ret) :
        /\ ret[i].source = ret[j].source
        /\ ret[i].result.ok
        /\ ret[i].result.v # file_name(ret[i].source)
        /\ ~ret[j].result.ok
        /\ disk[ret[i].source] = fs_copy(ret[i].source)

----------------------------------------------------------------------------
\* Claims about the Decision Controller (Spec).

\* The File Committer calls that have failed.
FailedCommits == { k \in DOMAIN commits : commits[k].status = "failed" }

\* C1: selected_count counts the commits that have succeeded or are still in
\* progress, and never a commit that failed.
C1_FailedCommitNotCounted ==
    selected_count = Cardinality(DOMAIN commits \ FailedCommits)

\* C2: once the commit of a pair has failed the failure is observable in the
\* controller.  AppState has no error state and the app has no error counter;
\* loading_message is the one field that could carry a report.
C2_FailedCommitReported ==
    FailedCommits # {} => loading_message # None

\* C3: whenever the controller is presenting, the two analyses it presents are
\* those of the two files of the pair at the current index.
C3_PresentsCurrentPair ==
    (state.tag = "ShowingImages" /\ ~exit_program) =>
        /\ pairs_get(current_index).some
        /\ current_analysis1 = Some(ImageAnalysis(pairs_get(current_index).v[1]))
        /\ current_analysis2 = Some(ImageAnalysis(pairs_get(current_index).v[2]))

\* C4: the session does not stay in Preparing(i) forever.  Stated for a finite
\* run: the controller is never between two frames in the Loading state of a
\* pair with no thread running and nothing in the handoff slot, where the
\* only step left is a frame that shows the spinner again.
C4_PreparingEnds ==
    ~ /\ state.tag = "Loading" /\ pc = "frame" /\ ~exit_program
      /\ pairs_get(current_index).some
      /\ threads = {}
      /\ next_data = None

\* C5: a cancel in any state that is not Done ends the session: after a
\* foreground step that was given Escape (or a click on Esci) exit_program is
\* set.
C5_CancelEndsSession ==
    event \in {"Escape", "Esci"} => exit_program

\* The step is a call of transfer_metadata (the W key or the Meta button)
\* while there is a pair at the current index.
TransferStep ==
    /\ \/ pc = "W" /\ event' = "W"
       \/ pc = "buttons" /\ event' = "Meta"
    /\ pairs_get(current_index).some

\* C8: transfer_metadata with the metadata counts (a, b) of the two current
\* analyses records path1 of the current pair as pending donor when a > b,
\* path2 when b > a, and leaves no donor pending when a = b, whatever was
\* pending before.
C8_DonorIsRicherSide ==
    [][TransferStep =>
          LET a == metadata_count(current_analysis1)
              b == metadata_count(current_analysis2)
              pair == pairs_get(current_index).v
          IN  /\ a > b => /\ metadata_transfer_pending'
                          /\ metadata_transfer_source' = Some(pair[1])
              /\ b > a => /\ metadata_transfer_pending'
                          /\ metadata_transfer_source' = Some(pair[2])
              /\ a = b => /\ ~metadata_transfer_pending'
                          /\ metadata_transfer_source' = None]_vars

\* The last step handled a transfer request (the W key or the Meta button).
Transferred ==
    \/ pc = "Escape" /\ event = "W"
    \/ pc = "A" /\ event = "Meta"

\* A request on the second pair, whose two analyses have the same count that
\* is not 0, has just been handled: no donor is pending and the state shows
\* the message (the request leaves the analyses as they were).
C8_Witness ==
    /\ Transferred
    /\ current_index = 1
    /\ state = SameCount
    /\ metadata_count(current_analysis1) = metadata_count(current_analysis2)
    /\ ~metadata_transfer_pending
    /\ metadata_transfer_source = None

\* The step is a call of process_choice: one more File Committer call.
CommitStep == Len(commits') = Len(commits) + 1

\* C9: the commit is started with the pending donor exactly when a donor was
\* pending; when it has been started the donor slot is empty, and the slot is
\* raised by nothing but a transfer request (not by the commit's success or
\* failure).
C9_DonorConsumedByCommit ==
    [][/\ CommitStep =>
            /\ commits'[Len(commits')].donor =
                  (IF metadata_transfer_pending THEN metadata_transfer_source ELSE None)
            /\ ~metadata_transfer_pending'
            /\ metadata_transfer_source' = None
       /\ (\/ ~metadata_transfer_pending /\ metadata_transfer_pending'
           \/ metadata_transfer_source' \notin {None, metadata_transfer_source})
            => TransferStep]_vars

\* A commit was started with a donor and has failed, and the slot is empty.
C9_Witness ==
    /\ \E k \in FailedCommits : commits[k].donor.some
    /\ ~metadata_transfer_pending
    /\ metadata_transfer_source = None

----------------------------------------------------------------------------
\* Claims about the sequencing of the session (Spec).

\* The File Committer calls that are in progress.
RunningCommits == { k \in DOMAIN commits : commits[k].status = "running" }

\* C11: at no time are two File Committer calls of one session in progress,
\* and no two calls that succeeded wrote the same destination name.
C11_OneCommitAtATime ==
    /\ Cardinality(RunningCommits) <= 1
    /\ \A j, k \in DOMAIN commits :
          (j # k /\ commits[j].status = "ok" /\ commits[k].status = "ok")
              => commits[j].dest # commits[k].dest

\* C12: a value a background thread has written into the handoff slot stays
\* there until the foreground takes it, and the take empties the slot and
\* installs that value (so that it is consumed once, and never replaced by
\* another thread's write before it is taken).
C12_HandoffConsumedOnce ==
    [][next_data.some =>
          \/ next_data' = next_data
          \/ /\ next_data' = None
             /\ current_analysis1' = Some(next_data.v[1])
             /\ current_analysis2' = Some(next_data.v[2])]_vars

\* C13: when the session has returned its final counts and the process has
\* ended, every File Committer call that was started has finished, with a
\* file written or with an error: none was cut short.
C13_CommitsRunToCompletion ==
    exited => \A k \in DOMAIN commits : commits[k].status \in {"ok", "failed"}

----------------------------------------------------------------------------
\* Claims about the decisions (Spec).

\* Presenting(i): the handlers of a frame that shows the pair are running,
\* the state is still ShowingImages and the session has not been ended.
Presenting ==
    /\ pc \in {"buttons"} \cup Keys
    /\ state.tag = "ShowingImages"
    /\ ~exit_program

\* The step is a call of skip_current (the S key or the Salta button).
SkipStep ==
    \/ pc = "S" /\ event' = "S"
    \/ pc = "buttons" /\ event' = "Salta"

\* The step starts the thread of load_current_pair for the pair at index i.
LoadStarted(i) ==
    threads' = one_more(threads,
        [kind |-> "load", index |-> i, cid |-> 0, pc |-> "analyze",
         dest |-> None, n |-> 1])

\* C14: skip from Presenting(i) adds one to skipped_count, leaves
\* selected_count unchanged and makes the current index i+1; when i+1 < N the
\* controller is then loading pair i+1 (state Loading, its load thread
\* started), and when i+1 = N the session is ended (exit_program).
C14_SkipAdvances ==
    [][(SkipStep /\ Presenting) =>
          /\ skipped_count' = skipped_count + 1
          /\ selected_count' = selected_count
          /\ current_index' = current_index + 1
          /\ IF current_index + 1 < Len(all_pairs)
             THEN /\ state'.tag = "Loading"
                  /\ ~exit_program'
                  /\ LoadStarted(current_index + 1)
             ELSE /\ exit_program'
                  /\ threads' = threads]_vars

\* The first of two pairs has just been skipped: the second is loading.
C14_Witness ==
    /\ \/ pc = "W" /\ event = "S"
       \/ pc = "A" /\ event = "Salta"
    /\ Len(all_pairs) = 2
    /\ current_index = 1
    /\ skipped_count = 1 /\ selected_count = 0
    /\ state = Loading(<<"Caricamento...">>)
    /\ \E t \in threads : t.kind = "load" /\ t.index = 1

\* The step is a call of make_choice(side): the A key or the Prima button
\* for side 1, the D key or the Seconda button for side 2.
ChooseStep(side) ==
    IF side = 1
    THEN (pc = "A" /\ event' = "A") \/ (pc = "buttons" /\ event' = "Prima")
    ELSE (pc = "D" /\ event' = "D") \/ (pc = "buttons" /\ event' = "Seconda")

\* The analysis shown on a side of the screen.
Shown(side) == IF side = 1 THEN current_analysis1 ELSE current_analysis2

\* C15: choose(side) from Presenting(i) moves to ProcessingChoice with the
\* path of that side of pair i, which is the file shown on that side when the
\* choice is made; and the source a commit is started with is the path of
\* the choice.
C15_ChoiceIsOfPresentedPair ==
    [][/\ \A side \in {1, 2} :
            (ChooseStep(side) /\ Presenting) =>
                /\ state' = ProcessingChoice(side, all_pairs[current_index + 1][side])
                /\ state'.path = Shown(side).v.file_path
       /\ CommitStep =>
            /\ state.tag = "ProcessingChoice"
            /\ commits'[Len(commits')].source = state.path]_vars

\* C16: a session started with an empty pair list is over at once: main has
\* returned, both counters are 0, no frame was drawn, no background thread
\* was started and no input was waited for.
C16_EmptySessionIsDone ==
    all_pairs = <<>> =>
        /\ pc = "main" \/ (pc = "end" /\ exited)
        /\ selected_count = 0 /\ skipped_count = 0
        /\ threads = {} /\ commits = <<>> /\ next_data = None
        /\ event = "none"

\* main has returned from a session with no pairs.
C16_Witness ==
    /\ all_pairs = <<>>
    /\ pc = "end" /\ exited
    /\ selected_count = 0 /\ skipped_count = 0

----------------------------------------------------------------------------
\* A session in which every analysis succeeds and the operator does nothing
\* but decide, once, on each pair that is shown.

\* The inputs that are a choose or a skip decision.
Decisions == {"A", "D", "S", "Prima", "Seconda", "Salta"}

\* The thread of load_current_pair, its analyses and images all Ok.
LoadThreadOk(t) ==
    LoadThread(t) /\ next_data' = analyzed(t.index, TRUE)

\* The thread of process_choice analysing the next pair, all Ok.
CommitPrefetchOk(t) ==
    CommitPrefetch(t) /\ next_data' = analyzed(t.index, TRUE)

\* show_modern_controls: a decision is clicked, or nothing is.
ControlsDecide ==
    Controls /\ event' \in Decisions \cup {"none"}

\* handle_keyboard_input: a decision key is pressed when no decision was
\* made earlier in the frame, or no key is.
KeyboardDecide(key) ==
    /\ KeyboardInput(key)
    /\ event' \in Decisions \cup {"none"}
    /\ event' \in Decisions => inputs = 0

\* The operator makes a decision.
Decide ==
    /\ ControlsDecide \/ \E key \in Keys : KeyboardDecide(key)
    /\ event' \in Decisions

NextDecide ==
    \/ Main
    \/ Run
    \/ UpdateLoading
    \/ UpdateProcessingChoice
    \/ UpdateShowingImages
    \/ ControlsDecide
    \/ \E key \in Keys : KeyboardDecide(key)
    \/ \E t \in threads : LoadThreadOk(t)
    \/ \E t \in threads : CommitResolve(t)
    \/ \E t \in threads : CommitCopy(t)
    \/ \E t \in threads : CommitPrefetchOk(t)
    \/ Exit

\* The frames follow one another (update asks for a repaint while it loads,
\* gui_v2.rs:215-217), every thread that was spawned runs, and the operator
\* decides on a pair that keeps being shown.
SpecDecide ==
    /\ Init
    /\ [][NextDecide]_vars
    /\ WF_vars(Main \/ Run \/ UpdateLoading \/ UpdateProcessingChoice
                 \/ UpdateShowingImages)
    /\ WF_vars(ControlsDecide \/ \E key \in Keys : KeyboardDecide(key))
    /\ SF_vars(Decide)
    /\ WF_vars(\E t \in threads : LoadThreadOk(t))
    /\ WF_vars(\E t \in threads : CommitResolve(t))
    /\ WF_vars(\E t \in threads : CommitCopy(t))
    /\ WF_vars(\E t \in threads : CommitPrefetchOk(t))
    /\ WF_vars(Exit)

\* The session is over: it has reached Done, or main has returned at once.
Over == Done \/ pc = "end"

\* C17: when every analysis succeeds and the operator makes one choose or
\* skip decision on each pair shown, the session ends, after N decisions (one
\* commit started per choose, one skip counted per skip, the index at N) and
\* with selected_count + skipped_count = N.
C17_SessionEndsAfterNDecisions ==
    /\ <>Over
    /\ [](Over => /\ current_index = Len(all_pairs)
                  /\ Len(commits) + skipped_count = Len(all_pairs)
                  /\ selected_count + skipped_count = Len(all_pairs))

\* A session on two pairs has ended and returned, one pair chosen and one
\* skipped.
C17_Witness ==
    /\ exited
    /\ Len(all_pairs) = 2
    /\ selected_count = 1 /\ skipped_count = 1

----------------------------------------------------------------------------
\* C18: the current index stays within 0..N (N the number of pairs), no step
\* makes it smaller, and no step changes the list of pairs.
C18_IndexInRangeAndMonotone ==
    /\ [](current_index \in 0..Len(all_pairs))
    /\ [][/\ current_index' >= current_index
          /\ all_pairs' = all_pairs]_vars

----------------------------------------------------------------------------
\* C30: in every state selected_count + skipped_count is the current index:
\* a step that moves the index moves it by one and adds one to exactly one of
\* the two counters, selected_count in a call of process_choice and
\* skipped_count in a call of skip_current, and no other step changes a
\* counter.
C30_CountersSumToIndex ==
    /\ [](selected_count + skipped_count = current_index)
    /\ [][LET selected == selected_count' - selected_count
              skipped == skipped_count' - skipped_count
          IN  /\ current_index' - current_index \in {0, 1}
              /\ selected \in {0, 1} /\ skipped \in {0, 1}
              /\ selected + skipped = current_index' - current_index
              /\ selected = 1 <=> CommitStep
              /\ skipped = 1 <=> SkipStep]_vars

\* Of two pairs one has been chosen and one skipped, in some order, and the
\* program is still running its last frame.
C30_Witness ==
    /\ ~exited
    /\ selected_count = 1 /\ skipped_count = 1
    /\ current_index = 2

\* The two paths of the pair at index i; none past the end of the list.
PathsOfPair(i) ==
    IF i < Len(all_pairs) THEN {all_pairs[i + 1][1], all_pairs[i + 1][2]} ELSE {}

\* The donor a File Committer call was started with is a path of a pair the
\* call's source is a path of.
DonorOfSamePair(commit) ==
    \E i \in 0..(Len(all_pairs) - 1) :
        {commit.source, commit.donor.v} \subseteq PathsOfPair(i)

\* C31: a pending metadata donor is one of the two paths of the pair at the
\* current index, and a commit that is started with a donor is started with a
\* path of the pair its source is of: a donor raised on pair i is not carried
\* to the commit of a later pair.
C31_DonorIsOfCurrentPair ==
    /\ []((metadata_transfer_pending /\ metadata_transfer_source.some)
            => metadata_transfer_source.v \in PathsOfPair(current_index))
    /\ [](\A k \in DOMAIN commits :
            commits[k].donor.some => DonorOfSamePair(commits[k]))

\* C32: a choose, skip or transfer-metadata input that comes while the
\* controller is not Presenting (the state is no longer ShowingImages, an
\* earlier input of the same frame having left it, or the session has been
\* ended) changes neither the index, the counters, the donor slot nor the
\* state.
C32_DecisionsOnlyWhilePresenting ==
    [][((SkipStep \/ ChooseStep(1) \/ ChooseStep(2) \/ TransferStep) /\ ~Presenting)
          => /\ current_index' = current_index
             /\ selected_count' = selected_count
             /\ skipped_count' = skipped_count
             /\ metadata_transfer_source' = metadata_transfer_source
             /\ metadata_transfer_pending' = metadata_transfer_pending
             /\ state' = state]_vars

\* The background tasks that are outstanding: the threads that are running,
\* and the one whose result is in the handoff slot, not yet taken.
Outstanding == running(threads) + (IF next_data.some THEN 1 ELSE 0)

\* C33: at most one background task is outstanding at any time, and a step
\* that starts a task starts it when none is outstanding.
C33_OneTaskOutstanding ==
    /\ [](Outstanding <= 1)
    /\ [][running(threads') > running(threads) => Outstanding = 0]_vars

----------------------------------------------------------------------------
\* Direct calls of FileManager::find_matching_files (SpecPM).

NameUpperX == <<"X", ".", "jpg">>
NameUpperExt == <<"x", ".", "JPG">>
NameTxt == <<"x", ".", "txt">>
NameHidden == <<".", "jpg">>
NameReplacement == <<"<FFFD>", ".", "jpg">>

\* What folder1 may hold: files of the same name in the folder and in a
\* subdirectory, names that differ in case only, files that are not images,
\* a name that is not UTF-8, and a directory named like an image.
Entries1 ==
    { DirEntry(Path("f1", NameX), FALSE),
      DirEntry(Path("f1/sub", NameX), FALSE),
      DirEntry(Path("f1", NameUpperX), FALSE),
      DirEntry(Path("f1", NameUpperExt), FALSE),
      DirEntry(Path("f1", NameTxt), FALSE),
      DirEntry(Path("f1", NameNoExt), FALSE),
      DirEntry(Path("f1", NameHidden), FALSE),
      DirEntry(Path("f1", NameNotUtf8), FALSE),
      DirEntry(Path("f1", NameZ), TRUE) }

\* What folder2 may hold.
Entries2 ==
    { DirEntry(Path("f2", NameX), FALSE),
      DirEntry(Path("f2/sub", NameX), FALSE),
      DirEntry(Path("f2", NameUpperExt), FALSE),
      DirEntry(Path("f2", NameTxt), FALSE),
      DirEntry(Path("f2", NameNoExt), FALSE),
      DirEntry(Path("f2", NameHidden), FALSE),
      DirEntry(Path("f2", NameReplacement), FALSE),
      DirEntry(Path("f2", NameZ), FALSE) }

\* The elements of a sequence.
Range(seq) == { seq[i] : i \in 1..Len(seq) }

\* WalkDir::new(folder).into_iter(): the entries under the folder, each once,
\* in the order the directories list them.
Walks(entries) ==
    { walk \in UNION { [1..n -> entries] : n \in 0..MaxEntries } :
        \A i, j \in 1..Len(walk) : i # j => walk[i] # walk[j] }

\* file_manager.find_matching_files() (main.rs:66)
FindMatchingFiles ==
    /\ pc = "matcher"
    /\ matching_files = None
    /\ matching_files' = Some(find_matching_files(folders[1], folders[2]))
    /\ UNCHANGED <<folders, output, ret>>
    /\ UNCHANGED <<appVars, analyzerVars, setupVars>>

InitPM ==
    /\ all_pairs = <<>>
    /\ state = Loading(<<"Caricamento prima coppia...">>)
    /\ current_index = 0
    /\ current_analysis1 = None
    /\ current_analysis2 = None
    /\ loading_message = None
    /\ next_data = None
    /\ selected_count = 0
    /\ skipped_count = 0
    /\ exit_program = FALSE
    /\ metadata_transfer_source = None
    /\ metadata_transfer_pending = FALSE
    /\ pc = "matcher"
    /\ event = "none"
    /\ inputs = 0
    /\ threads = {}
    /\ commits = <<>>
    /\ exited = FALSE
    /\ output = <<>>
    /\ ret = <<>>
    /\ \E walk1 \in Walks(Entries1), walk2 \in Walks(Entries2) :
          folders = <<walk1, walk2>>
    /\ matching_files = None
    /\ file_manager = None
    /\ disk = <<>>
    /\ analyses = <<>>
    /\ ratings = <<>>

NextPM == FindMatchingFiles

SpecPM == InitPM /\ [][NextPM]_vars

\* The files under root k: the entries that are not directories.
FilesUnder(k) == { entry.path : entry \in { e \in Range(folders[k]) : ~e.is_dir } }

\* The extension of the file is, whatever its case, one of the recognized ones.
Recognized(path) ==
    /\ extension(path).some
    /\ \E ext \in ImageExtensions : to_lowercase(extension(path).v) = ext

\* C19: the pairs find_matching_files returns are exactly the (a, b) with a a
\* file under root A and b a file under root B that both have a recognized
\* image extension and the same file name, character for character; so names
\* that differ in case are not paired and a file present in one root only is
\* in no pair.
C19_PairsExactlyEqualNames ==
    matching_files.some =>
        Range(matching_files.v) =
            { pair \in FilesUnder(1) \X FilesUnder(2) :
                /\ Recognized(pair[1]) /\ Recognized(pair[2])
                /\ file_name(pair[1]) = file_name(pair[2]) }

\* C20: a file whose extension is not a recognized one, whatever its case, or
\* that has no extension, is in no pair find_matching_files returns.
C20_OnlyRecognizedExtensions ==
    matching_files.some =>
        \A pair \in Range(matching_files.v) :
            Recognized(pair[1]) /\ Recognized(pair[2])

\* The call has returned, on roots that both hold a file x.txt (or both a
\* file x with no extension) and both a file x.JPG, which is paired.
C20_Witness ==
    /\ matching_files.some
    /\ \E name \in {NameTxt, NameNoExt} :
          /\ Path("f1", name) \in FilesUnder(1)
          /\ Path("f2", name) \in FilesUnder(2)
    /\ <<Path("f1", NameUpperExt), Path("f2", NameUpperExt)>>
          \in Range(matching_files.v)

\* The image file of the walk of root k that was indexed last under the name.
LastIndexed(k, name) ==
    LET walk == folders[k]
        at == { i \in 1..Len(walk) :
                  /\ ~walk[i].is_dir
                  /\ is_image_file(walk[i].path)
                  /\ file_name(walk[i].path) = name }
    IN  walk[CHOOSE i \in at : \A j \in at : j <= i].path

\* C21: a base name is in at most one returned pair, and the pair of a name
\* that occurs several times within one root holds the file of that root that
\* was indexed last.
C21_OnePairPerBaseName ==
    matching_files.some =>
        LET pairs == matching_files.v
        IN  /\ \A i, j \in 1..Len(pairs) :
                  i # j => file_name(pairs[i][1]) # file_name(pairs[j][1])
            /\ \A i \in 1..Len(pairs) : \A k \in {1, 2} :
                  pairs[i][k] = LastIndexed(k, file_name(pairs[i][k]))

\* C22: the returned list is ordered by base name: of two consecutive pairs
\* the name of the second is never less than the name of the first, whatever
\* the order in which the walks yield the files.
C22_SortedByBaseName ==
    matching_files.some =>
        \A i \in 1..(Len(matching_files.v) - 1) :
            ~less(file_name(matching_files.v[i + 1][1]),
                  file_name(matching_files.v[i][1]))

\* Two pairs of different names are returned, and the file the walk of root
\* B yielded first is in the second of them.
C22_Witness ==
    /\ matching_files.some
    /\ Len(matching_files.v) = 2
    /\ file_name(matching_files.v[1][1]) # file_name(matching_files.v[2][1])
    /\ folders[2][1].path = matching_files.v[2][2]

----------------------------------------------------------------------------
\* Direct calls of ImageAnalysis::analyze_image (SpecQS on files of many
\* sizes, SpecIA on a file that is analysed again and again).

\* Of the outcomes of the file operations, those that tell one run of
\* analyze_image from another: an operation that is not reached, after an
\* earlier one has failed, counts as not failed.
Runs ==
    { io \in IoOutcomes :
        /\ ~io.size => (io.decode /\ io.exif /\ io.hash)
        /\ ~io.decode => (io.exif /\ io.hash) }

\* ImageAnalysis::analyze_image(path), on the file the disk holds.
AnalyzeImage(path) ==
    /\ pc = "analyzer"
    /\ Len(analyses) < MaxAnalyses
    /\ \E io \in Runs :
          analyses' = Append(analyses,
                             [path    |-> path,
                              content |-> disk[path],
                              io      |-> io,
                              result  |-> analyze_image(path, disk[path], io)])
    /\ UNCHANGED <<disk, ratings, output, ret>>
    /\ UNCHANGED <<appVars, matcherVars, setupVars>>

\* The first analysis of a file.
AnalyzeOnce ==
    /\ analyses = <<>>
    /\ \E path \in DOMAIN disk : AnalyzeImage(path)

\* File names by extension.
NameOf(ext) == <<"x", ".", ext>>

\* The extensions of the files analysed, those image::open decodes a file
\* by: JPEG, lossless and other formats, in either case.
ScoredNames ==
    { NameOf(ext) : ext \in {"jpg", "JPG", "jpeg", "png", "PNG", "tiff", "tif",
                              "bmp", "webp", "gif"} }

\* Width and height: 123 pixels, just under 1 MP, and every step of the
\* resolution scale from 0.5 MP to 50 MP.
Dimensions ==
    { <<41, 3>>, <<1000, 500>>, <<1001, 999>>, <<1000, 1000>>, <<2000, 1000>>,
      <<5000, 1000>>, <<8000, 1000>>, <<12000, 1000>>, <<24000, 1000>>,
      <<48000, 1000>>, <<50000, 1000>> }

\* Tenths of a byte per pixel: every step of the JPEG scale, and below it.
Tenths == {2, 3, 4, 5, 7, 10, 12, 15, 20, 25, 30, 40}

\* The files of SpecQS: of each size, the number of bytes that gives the
\* tenths of a byte per pixel, or just less when that is not whole.
ScoredContents ==
    { FileContent((tenths * dim[1] * dim[2]) \div 10, Some(dim), NoExif, 0) :
        dim \in Dimensions, tenths \in Tenths }

\* What every specification of direct analyze_image calls starts from.
InitAnalyzer ==
    /\ all_pairs = <<>>
    /\ state = Loading(<<"Caricamento prima coppia...">>)
    /\ current_index = 0
    /\ current_analysis1 = None
    /\ current_analysis2 = None
    /\ loading_message = None
    /\ next_data = None
    /\ selected_count = 0
    /\ skipped_count = 0
    /\ exit_program = FALSE
    /\ metadata_transfer_source = None
    /\ metadata_transfer_pending = FALSE
    /\ event = "none"
    /\ inputs = 0
    /\ threads = {}
    /\ commits = <<>>
    /\ exited = FALSE
    /\ output = <<>>
    /\ ret = <<>>
    /\ folders = <<<<>>, <<>>>>
    /\ matching_files = None
    /\ file_manager = None
    /\ analyses = <<>>

InitQS ==
    /\ InitAnalyzer
    /\ pc = "analyzer"
    /\ ratings = <<>>
    /\ \E name \in ScoredNames, content \in ScoredContents :
          disk = [path \in {Path("f1", name)} |-> content]

NextQS == AnalyzeOnce

SpecQS == InitQS /\ [][NextQS]_vars

\* The analyses that returned Ok, with the path analysed.
Analysed == { i \in 1..Len(analyses) : analyses[i].result.ok }

\* The extension of the file is, whatever its case, one of the given ones.
HasExtension(path, exts) ==
    /\ extension(path).some
    /\ to_lowercase(extension(path).v) \in exts

\* The resolution term as the scale of megapixels gives it.
ResolutionTerm(pixels) ==
    CASE pixels >= 48 * 1000000 -> 40
      [] pixels \in (24 * 1000000)..(48 * 1000000 - 1) -> 35
      [] pixels \in (12 * 1000000)..(24 * 1000000 - 1) -> 30
      [] pixels \in (8 * 1000000)..(12 * 1000000 - 1) -> 25
      [] pixels \in (5 * 1000000)..(8 * 1000000 - 1) -> 20
      [] pixels \in (2 * 1000000)..(5 * 1000000 - 1) -> 15
      [] pixels \in (1 * 1000000)..(2 * 1000000 - 1) -> 10
      [] OTHER -> 5

\* C23: the quality score is the resolution term plus a compression term of
\* 0 to 60 and lies in 0..100; the resolution term is 40/35/30/25/20/15/10/5
\* for megapixels >= 48/24/12/8/5/2/1/less; the compression term of a png,
\* tiff, tif or bmp file is 60 whatever its size, so a lossless file of 50 MP
\* scores 100.
C23_ScoreIsResolutionPlusCompression ==
    \A i \in Analysed :
        LET a        == analyses[i].result.v
            lossless == HasExtension(analyses[i].path,
                                     {<<"png">>, <<"tiff">>, <<"tif">>, <<"bmp">>})
        IN  /\ a.quality_score \in 0..100
            /\ a.quality_score - ResolutionTerm(a.megapixels) \in 0..60
            /\ lossless =>
                  a.quality_score = ResolutionTerm(a.megapixels) + 60
            /\ (lossless /\ a.megapixels = 50 * 1000000) => a.quality_score = 100

\* A png file of 50 MP has been analysed and scores 100.
C23_Witness ==
    \E i \in Analysed :
        /\ HasExtension(analyses[i].path, {<<"png">>})
        /\ analyses[i].result.v.megapixels = 50 * 1000000
        /\ analyses[i].result.v.quality_score = 100

\* The file is not of a lossless format.
NotLossless(path) ==
    ~HasExtension(path, {<<"png">>, <<"tiff">>, <<"tif">>, <<"bmp">>})

\* The analysed file has less than 1 MP and less than 0.3 bytes per pixel.
SmallAndThin(i) ==
    /\ analyses[i].result.v.megapixels < 1000000
    /\ 10 * analyses[i].content.len < 3 * analyses[i].result.v.megapixels

\* C24 as stated: every file that is not lossless, has less than 1 MP and
\* less than 0.3 bytes per pixel scores 10.
C24_ThinLossyScoresTen ==
    \A i \in Analysed :
        (NotLossless(analyses[i].path) /\ SmallAndThin(i))
            => analyses[i].result.v.quality_score = 10

\* C24, amended: a jpg or jpeg file with less than 1 MP and less than 0.3
\* bytes per pixel scores 10 (5 for the resolution, 5 for the compression);
\* the compression term of a jpg or jpeg file is one of the steps from 5 to
\* 60; every other file that is not lossless has a compression term of 30
\* whatever its bytes per pixel, and scores 35 when it has less than 1 MP.
C24_ThinJpegScoresTen ==
    \A i \in Analysed :
        LET a    == analyses[i].result.v
            term == a.quality_score - ResolutionTerm(a.megapixels)
            jpeg == HasExtension(analyses[i].path, {<<"jpg">>, <<"jpeg">>})
        IN  /\ (jpeg /\ SmallAndThin(i)) => (a.quality_score = 10 /\ term = 5)
            /\ jpeg => term \in {5, 10, 15, 20, 25, 30, 35, 40, 45, 50, 55, 60}
            /\ (NotLossless(analyses[i].path) /\ ~jpeg) => term = 30
            /\ (NotLossless(analyses[i].path) /\ ~jpeg /\ a.megapixels < 1000000)
                  => a.quality_score = 35

\* A JPEG of 0.5 MP and 0.2 bytes per pixel has been analysed and scores 10.
C24_Witness ==
    \E i \in Analysed :
        /\ analyses[i].path = Path("f1", NameOf("JPG"))
        /\ analyses[i].result.v.megapixels = 500000
        /\ analyses[i].content.len = 100000
        /\ analyses[i].result.v.quality_score = 10

----------------------------------------------------------------------------
\* Direct calls of ImageAnalysis::get_quality_stars (SpecStars), on two
\* analyses of any quality score.

\* analysis.get_quality_stars(), for the i-th of the analyses.
GetQualityStars(i) ==
    /\ pc = "stars"
    /\ ~ratings[i].stars.some
    /\ ratings' = [ratings EXCEPT
                      ![i].stars = Some(get_quality_stars(ratings[i].analysis))]
    /\ UNCHANGED <<disk, analyses, output, ret>>
    /\ UNCHANGED <<appVars, matcherVars, setupVars>>

InitStars ==
    /\ InitAnalyzer
    /\ pc = "stars"
    /\ disk = <<>>
    /\ \E s1, s2 \in 0..MaxScore :
          ratings = <<[analysis |-> [quality_score |-> s1], stars |-> None],
                      [analysis |-> [quality_score |-> s2], stars |-> None]>>

NextStars == \E i \in DOMAIN ratings : GetQualityStars(i)

SpecStars == InitStars /\ [][NextStars]_vars

\* The ratings made, and the number of filled symbols of one.
Rated == { i \in DOMAIN ratings : ratings[i].stars.some }
Filled(i) ==
    Cardinality({ k \in DOMAIN ratings[i].stars.v : ratings[i].stars.v[k] = "filled" })

\* C25: the stars of a score s in 0..100 are s/100*5 rounded to the nearest
\* integer (a half rounds up) and at most 5: the number is in 0..5, a larger
\* score never has fewer stars, and the string has exactly 5 symbols, the
\* filled ones first.
C25_StarsRoundedAndClamped ==
    /\ \A i \in Rated :
          LET s == ratings[i].analysis.quality_score
              n == Filled(i)
          IN  /\ n \in 0..5
              /\ 20 * n - 10 <= s /\ s < 20 * n + 10
              /\ Len(ratings[i].stars.v) = 5
              /\ \A k \in 1..5 :
                    ratings[i].stars.v[k] = IF k <= n THEN "filled" ELSE "empty"
    /\ \A i, j \in Rated :
          ratings[i].analysis.quality_score <= ratings[j].analysis.quality_score
              => Filled(i) <= Filled(j)

\* The scores 9 and 10 have been rated: no star and one star.
C25_Witness ==
    /\ Rated = {1, 2}
    /\ ratings[1].analysis.quality_score = 9 /\ Filled(1) = 0
    /\ ratings[2].analysis.quality_score = 10 /\ Filled(2) = 1

----------------------------------------------------------------------------
\* SpecIA: one file, analysed up to MaxAnalyses times, that other programs
\* may rewrite between two analyses.

\* The fields of an EXIF block.
ExifBlock == Some(<<<<"Make", "Canon">>, <<"DateTime", "2024">>>>)

\* What the file may hold: a JPEG with an EXIF block, the same with one byte
\* of its pixel data altered, with no EXIF block, with a block that cannot
\* be parsed, and bytes that are not an image.
AnalysedContents ==
    { FileContent(100000, Some(<<1000, 500>>), ExifBlock, 0),
      FileContent(100000, Some(<<1000, 500>>), ExifBlock, 1),
      FileContent(100000, Some(<<1000, 500>>), NoExif, 0),
      FileContent(100000, Some(<<1000, 500>>), BadExif, 0),
      FileContent(100000, None, NoExif, 0) }

\* The file is rewritten, by whoever owns it, while no analysis runs.
ModifyFile(path) ==
    /\ pc = "analyzer"
    /\ \E content \in AnalysedContents \ {disk[path]} :
          disk' = [disk EXCEPT ![path] = content]
    /\ UNCHANGED <<analyses, ratings, output, ret>>
    /\ UNCHANGED <<appVars, matcherVars, setupVars>>

InitIA ==
    /\ InitAnalyzer
    /\ pc = "analyzer"
    /\ ratings = <<>>
    /\ \E content \in AnalysedContents :
          disk = [path \in {Path("f1", NameX)} |-> content]

NextIA ==
    \/ \E path \in DOMAIN disk : AnalyzeImage(path)
    \/ \E path \in DOMAIN disk : ModifyFile(path)

SpecIA == InitIA /\ [][NextIA]_vars

\* C26: analyze_image fails exactly when reading the file size, decoding the
\* image or hashing the file fails; a metadata block that is missing, cannot
\* be parsed or cannot be read never makes it fail, and then the metadata
\* list is empty and the metadata count 0.
C26_FailsOnSizeDecodeHashOnly ==
    \A i \in 1..Len(analyses) :
        LET call == analyses[i]
        IN  /\ call.result.ok <=>
                  /\ call.io.size
                  /\ call.io.decode /\ call.content.image.some
                  /\ call.io.hash
            /\ (call.result.ok /\ (~call.content.exif.some \/ ~call.io.exif)) =>
                  /\ call.result.v.exif_data = <<>>
                  /\ call.result.v.metadata_count = 0

\* A file with no metadata block and a file whose block cannot be parsed have
\* both been analysed with success.
C26_Witness ==
    \E i, j \in Analysed :
        /\ analyses[i].content.exif = NoExif
        /\ analyses[j].content.exif = BadExif
        /\ analyses[i].result.v.metadata_count = 0
        /\ analyses[j].result.v.metadata_count = 0

\* C29: two analyses of the same unmodified file return identical records
\* (size, dimensions, megapixels, metadata list and count, quality score and
\* digest), and every analysis is of the content the file has when it is
\* made: its size, dimensions and digest are those of that content, so the
\* digests of two different contents differ.
C29_AnalysisIsDeterministic ==
    /\ \A i, j \in Analysed :
          analyses[i].content = analyses[j].content
              => analyses[i].result.v = analyses[j].result.v
    /\ \A i \in Analysed :
          LET call == analyses[i]
          IN  /\ call.result.v.file_size_mb = call.content.len
              /\ call.result.v.width = call.content.image.v[1]
              /\ call.result.v.height = call.content.image.v[2]
              /\ call.result.v.hash = Sha256(call.content)
    /\ \A i, j \in Analysed :
          analyses[i].content # analyses[j].content
              => analyses[i].result.v.hash # analyses[j].result.v.hash

----------------------------------------------------------------------------
\* SpecSetup: main from FileManager::new to find_matching_files.

\* The two folders main was given, and PathBuf::from("output").
Folder1 == Path("f1", <<>>)
Folder2 == Path("f2", <<>>)
OutputFolder == Path("output", <<>>)

\* What the disk holds at the path of a directory, and at the path of a
\* regular file that is not looked into.
Directory == [kind |-> "directory"]
RegularFile == [kind |-> "file"]

\* Path::exists
path_exists(path) == path \in DOMAIN disk

\* What is at the path: a directory, a regular file, or nothing.
kind_of(path) == IF path_exists(path) THEN disk[path].kind ELSE "absent"

\* fs::create_dir_all(path), when it succeeds: the directory is there.
create_dir_all(files, path) ==
    [p \in DOMAIN files \cup {path} |-> IF p = path THEN Directory ELSE files[p]]

\* FileManager { folder1, folder2, output_folder }
FileManagerOf(folder1, folder2) ==
    [folder1 |-> folder1, folder2 |-> folder2, output_folder |-> OutputFolder]

\* FileManager::new with the output directory created before the folders
\* are looked at.
FileManagerNew_CreateFirst ==
    /\ pc = "setup"
    /\ file_manager = None
    /\ \E created \in BOOLEAN :
          /\ kind_of(OutputFolder) = "directory" => created
          /\ kind_of(OutputFolder) = "file" => ~created
          /\ disk' = IF created THEN create_dir_all(disk, OutputFolder) ELSE disk
          /\ file_manager' =
                IF created /\ path_exists(Folder1) /\ path_exists(Folder2)
                THEN Some(Ok(FileManagerOf(Folder1, Folder2)))
                ELSE Some(Err)
          /\ pc' = IF file_manager'.v.ok THEN "matcher" ELSE "end"
    /\ UNCHANGED <<state, all_pairs, current_index, current_analysis1,
                   current_analysis2, loading_message, next_data,
                   selected_count, skipped_count, exit_program,
                   metadata_transfer_source, metadata_transfer_pending,
                   event, inputs, threads, commits, exited, output, ret>>
    /\ UNCHANGED <<matcherVars, analyses, ratings>>

\* let file_manager = FileManager::new(folder1, folder2)? (main.rs:63): new
\* bails when a folder does not exist, then creates the output directory,
\* which fails when it cannot be created (at least when a regular file is in
\* its place); on Err main returns.
FileManagerNew ==
    /\ pc = "setup"
    /\ file_manager = None
    /\ IF ~path_exists(Folder1) \/ ~path_exists(Folder2)
       THEN /\ file_manager' = Some(Err)
            /\ disk' = disk
       ELSE \E created \in BOOLEAN :
              /\ kind_of(OutputFolder) = "directory" => created
              /\ kind_of(OutputFolder) = "file" => ~created
              /\ disk' = IF created THEN create_dir_all(disk, OutputFolder) ELSE disk
              /\ file_manager' = IF created
                                 THEN Some(Ok(FileManagerOf(Folder1, Folder2)))
                                 ELSE Some(Err)
    /\ pc' = IF file_manager'.v.ok THEN "matcher" ELSE "end"
    /\ UNCHANGED <<state, all_pairs, current_index, current_analysis1,
                   current_analysis2, loading_message, next_data,
                   selected_count, skipped_count, exit_program,
                   metadata_transfer_source, metadata_transfer_pending,
                   event, inputs, threads, commits, exited, output, ret>>
    /\ UNCHANGED <<matcherVars, analyses, ratings>>

\* What a folder of the setup may hold.
SetupEntries(dir) ==
    { DirEntry(Path(dir, NameX), FALSE), DirEntry(Path(dir, NameY), FALSE) }

\* The paths that may or may not be there when main starts.
SetupDisks ==
    { files \in UNION { [paths -> {Directory, RegularFile}] :
                          paths \in SUBSET {Folder1, Folder2, OutputFolder} } :
        \A p \in DOMAIN files \cap {Folder1, Folder2} : files[p] = Directory }

InitSetup ==
    /\ all_pairs = <<>>
    /\ state = Loading(<<"Caricamento prima coppia...">>)
    /\ current_index = 0
    /\ current_analysis1 = None
    /\ current_analysis2 = None
    /\ loading_message = None
    /\ next_data = None
    /\ selected_count = 0
    /\ skipped_count = 0
    /\ exit_program = FALSE
    /\ metadata_transfer_source = None
    /\ metadata_transfer_pending = FALSE
    /\ pc = "setup"
    /\ event = "none"
    /\ inputs = 0
    /\ threads = {}
    /\ commits = <<>>
    /\ exited = FALSE
    /\ output = <<>>
    /\ ret = <<>>
    /\ disk \in SetupDisks
    /\ \E walk1 \in Walks(SetupEntries("f1")), walk2 \in Walks(SetupEntries("f2")) :
          folders = <<IF path_exists(Folder1) THEN walk1 ELSE <<>>,
                      IF path_exists(Folder2) THEN walk2 ELSE <<>> >>
    /\ matching_files = None
    /\ analyses = <<>>
    /\ ratings = <<>>
    /\ file_manager = None

NextSetup ==
    \/ FileManagerNew
    \/ FindMatchingFiles

SpecSetup == InitSetup /\ [][NextSetup]_vars

\* C27: when folder 1 or folder 2 does not exist, setup fails with an error
\* and nothing else happens: no directory is created and no scan is made.
\* When both exist and setup succeeds, the output directory exists after it;
\* setup fails only when a folder is missing or the output directory could
\* not be created.
C27_SetupFailsOnMissingRoot ==
    /\ []((file_manager.some /\ ~(path_exists(Folder1) /\ path_exists(Folder2)))
            => (~file_manager.v.ok /\ matching_files = None))
    /\ []((file_manager.some /\ file_manager.v.ok)
            => kind_of(OutputFolder) = "directory")
    /\ []((file_manager.some /\ ~file_manager.v.ok)
            => (/\ matching_files = None
                /\ \/ ~(path_exists(Folder1) /\ path_exists(Folder2))
                   \/ kind_of(OutputFolder) # "directory"))
    /\ [][~(path_exists(Folder1) /\ path_exists(Folder2)) => disk' = disk]_vars

\* Setup has failed for a missing folder 1, with no output directory on the
\* disk; and main has returned.
C27_Witness ==
    /\ file_manager = Some(Err)
    /\ ~path_exists(Folder1) /\ path_exists(Folder2)
    /\ ~path_exists(OutputFolder)
    /\ pc = "end"

----------------------------------------------------------------------------
\* analyze_image called on the two files of a pair that differ in size only:
\* the same file name in the two folders, the same width and height.

\* The extensions of the pair: JPEG in either case, lossless, another format.
SizedNames == { NameOf(ext) : ext \in {"jpg", "JPEG", "png", "gif"} }

\* The sizes of the pair: 123 pixels, 0.5 MP and 2 MP.
SizedDimensions == { <<41, 3>>, <<1000, 500>>, <<2000, 1000>> }

\* The files of the pair: of the width and height given, at every step of
\* the JPEG scale and below it.
SizedContents(dim) ==
    { FileContent((tenths * dim[1] * dim[2]) \div 10, Some(dim), NoExif, 0) :
        tenths \in Tenths }

\* analyze_image on a file of the pair that has not been analysed yet.
AnalyzeEach ==
    \E path \in DOMAIN disk :
        /\ \A i \in 1..Len(analyses) : analyses[i].path # path
        /\ AnalyzeImage(path)

InitSizes ==
    /\ InitAnalyzer
    /\ pc = "analyzer"
    /\ ratings = <<>>
    /\ \E name \in SizedNames, dim \in SizedDimensions :
          \E content1, content2 \in SizedContents(dim) :
             disk = [path \in {Path("f1", name), Path("f2", name)} |->
                        IF path = Path("f1", name) THEN content1 ELSE content2]

NextSizes == AnalyzeEach

SpecSizes == InitSizes /\ [][NextSizes]_vars

\* C34: of two analysed files with the same extension and the same width and
\* height, the one with more bytes never has the lower quality score.
C34_ScoreGrowsWithSize ==
    \A i, j \in Analysed :
        (/\ extension(analyses[i].path) = extension(analyses[j].path)
         /\ analyses[i].content.image = analyses[j].content.image
         /\ analyses[i].content.len <= analyses[j].content.len)
            => analyses[i].result.v.quality_score <= analyses[j].result.v.quality_score

\* Two JPEG files of 123 pixels have been analysed, one of 492 bytes (4.0
\* bytes per pixel) and one of 369 (3.0): the larger scores more.
C34_Witness ==
    \E i, j \in Analysed :
        /\ HasExtension(analyses[i].path, {<<"jpg">>, <<"jpeg">>})
        /\ analyses[i].content.image = Some(<<41, 3>>)
        /\ analyses[j].content.image = Some(<<41, 3>>)
        /\ analyses[i].content.len = 369
        /\ analyses[j].content.len = 492
        /\ analyses[i].result.v.quality_score < analyses[j].result.v.quality_score

----------------------------------------------------------------------------
\* analyze_image called once on a file whose metadata block holds up to
\* MaxFields fields, the same tag more than once among them.

\* The fields a block may hold, as (tag, value).
Fields == { <<tag, value>> : tag \in {"Make", "DateTime"}, value \in {"Canon", "2024"} }

RECURSIVE Blocks(_)
\* The blocks of n fields at most, in the order the reader yields them.
Blocks(n) ==
    IF n = 0
    THEN {<<>>}
    ELSE Blocks(n - 1)
           \cup { Append(block, field) : block \in Blocks(n - 1), field \in Fields }

\* The files of SpecExif: a JPEG with each block, with none, and with one
\* that cannot be parsed.
ExifContents ==
    { FileContent(100000, Some(<<1000, 500>>), Some(block), 0) :
        block \in Blocks(MaxFields) }
      \cup { FileContent(100000, Some(<<1000, 500>>), NoExif, 0),
             FileContent(100000, Some(<<1000, 500>>), BadExif, 0) }

InitExif ==
    /\ InitAnalyzer
    /\ pc = "analyzer"
    /\ ratings = <<>>
    /\ \E content \in ExifContents :
          disk = [path \in {Path("f1", NameX)} |-> content]

NextExif == AnalyzeOnce

SpecExif == InitExif /\ [][NextExif]_vars

\* C35: in every ImageAnalysis that analyze_image returns metadata_count is
\* the length of exif_data, and exif_data holds the fields of the file in the
\* order they were extracted, every field of a repeated tag among them
\* (nothing when the block is missing or could not be read).
C35_CountIsLengthOfList ==
    \A i \in Analysed :
        LET analysis == analyses[i].result.v
            exif     == analyses[i].content.exif
        IN  /\ analysis.metadata_count = Len(analysis.exif_data)
            /\ analysis.exif_data =
                  IF analyses[i].io.exif /\ exif.some THEN exif.v ELSE <<>>

\* A file whose block holds Make, DateTime and Make again has been analysed:
\* three entries in that order, the count 3.
C35_Witness ==
    \E i \in Analysed :
        /\ analyses[i].result.v.metadata_count = 3
        /\ analyses[i].result.v.exif_data =
              << <<"Make", "Canon">>, <<"DateTime", "2024">>, <<"Make", "2024">> >>
====
